---- MODULE Spec2Model ----
(***************************************************************************)
(* A model of the cfx-experiments scripts:                                 *)
(*   - eventchecker.py        the event checker (process, process_match,  *)
(*                            results) and the startup-config simulation   *)
(*                            (CfxConfig.parse_resources);                 *)
(*   - prototype-deptree.py   the dependency resolver                      *)
(*                            (results_advanced.resolve_dependencies).     *)
(*   - the comment stripping of process_file and the manifest loop of      *)
(*     prototype-deptree.py's CfxDependencyTree.process.                   *)
(* Each part has its own specification over its own variables; the other   *)
(* parts' variables stay at their initial values.                          *)
(***************************************************************************)
EXTENDS Integers, Sequences, FiniteSets, TLC

VARIABLES
    \* ---- prototype-deptree.py, resolve_dependencies ----
    arg,        \* the dependency dictionary passed in: name -> set of names
    d,          \* the working dictionary of the loop
    r,          \* the list of layers built so far
    dpc,        \* "loop" while `while d` runs, "done" after `return r`
    \* ---- eventchecker.py, CfxConfig.parse_resources ----
    cfgAvailable,   \* CfxConfig.available: a config path was given and is a file
    started,        \* the dict `started`, as the sequence of its keys
    seen_paths,     \* the set `seen_paths`
    cfgStack,       \* the active calls of _parse_contents_r, innermost last
    cfgLog,         \* the lines read so far, in the order the loop took them
    resources,      \* CfxConfig.resources, the list parse_resources returned
    cpc,            \* "init", "run" (inside parse_resources), "done"
    \* ---- eventchecker.py, parse_resources over given config files ----
    cfgFiles,       \* the readable config files: path -> the lines of the file
    cfgPos,         \* for each active call of cfgStack, the lines it has taken
    cfgWarned,      \* the paths the `Cyclic exec` warning was printed for
    \* ---- eventchecker.py, CfxEventChecker ----
    ignored_events, \* self.ignored_events: the default and the given patterns
    handlers,       \* self.handlers: the dict as the sequence of its EventMatch values
    emitters,       \* self.emitters, likewise
    registers,      \* self.registers, likewise
    sightings,      \* every call-site process_match was given and did not skip
    skipped,        \* the event names process_match skipped as ignored
    nmatches,       \* the number of process_match calls so far
    triggers,       \* the direction results() was called with
    report,         \* the blocks results() put in `data`, in order
    manifestsLeft,  \* the manifests process() has still to take from its list
    files,          \* the (path, role) pairs of the resource still to scan
    error,          \* the exception that ended the run ("" when none did)
    taken,          \* the manifest process() took last, and what became of it
    epc,            \* "process", "done" (results has run), "crashed", "idle"
    \* ---- eventchecker.py, process_file: comment stripping and scan ----
    original,       \* the text of the script file as read
    contents,       \* the local `contents` of process_file
    suffix,         \* path.suffix of the script file
    spc,            \* "read", "block" (Lua, block comments removed), "stripped", "scanned"
    \* ---- prototype-deptree.py, CfxDependencyTree.process ----
    dependencies,   \* self.dependencies: the dict as the sequence of its items
    treeLeft,       \* the manifests process() has still to take from its list
    treeError,      \* the exception that ended the run ("" when none did)
    tpc,            \* "process", "done", "reported", "crashed", "idle"
    treeScanned,    \* the manifests parse_manifest returned a pair for, in order
    treeSeen,       \* the (resource, dependency) sightings behind the lists
    treeData,       \* the blocks results() put in `data`, in order
    \* ---- eventchecker.py, CfxResource.parse_manifest on one declaration ----
    decl,           \* the declaration of the manifest text
    temp_files,     \* the list `temp_files` of (value, script_type)
    mpc,            \* "read", "parsed", or the exception raised; "idle"
    \* ---- prototype_custom_fivem.py, main ----
    present,        \* the files of the folder given as argument
    json,           \* what components.json and components.json.bak hold
    windows,        \* Path.rename raises when the target exists (Windows)
    outcomes,       \* for every run of main so far, the exception that ended it
    before,         \* the folder before the first run
    gpc             \* "ready", "idle"

depVars == <<arg, d, r, dpc>>

cfgVars == <<cfgAvailable, started, seen_paths, cfgStack, cfgLog, resources, cpc>>

evVars == <<ignored_events, handlers, emitters, registers, sightings, skipped,
            nmatches, triggers, report, manifestsLeft, files, error, taken, epc>>

execVars == <<cfgFiles, cfgPos, cfgWarned>>

stripVars == <<original, contents, suffix, spc>>

treeVars == <<dependencies, treeLeft, treeError, tpc, treeScanned, treeSeen, treeData>>

declVars == <<decl, temp_files, mpc>>

togVars == <<present, json, windows, outcomes, before, gpc>>

vars == <<depVars, cfgVars, evVars, execVars, stripVars, treeVars, declVars, togVars>>

\* The resolver's variables while another part of the program is modelled.
IdleDeps ==
    /\ arg = <<>>
    /\ d = <<>>
    /\ r = <<>>
    /\ dpc = "idle"

\* The config's variables while another part of the program is modelled.
IdleConfig ==
    /\ cfgAvailable = FALSE
    /\ started = <<>>
    /\ seen_paths = {}
    /\ cfgStack = <<>>
    /\ cfgLog = <<>>
    /\ resources = <<>>
    /\ cpc = "idle"

\* The given config files, the script text and the dependency tree while
\* another part of the program is modelled.
IdleExec ==
    /\ cfgFiles = <<>>
    /\ cfgPos = <<>>
    /\ cfgWarned = {}

IdleStrip ==
    /\ original = <<>>
    /\ contents = <<>>
    /\ suffix = ""
    /\ spc = "idle"

IdleTree ==
    /\ dependencies = <<>>
    /\ treeLeft = 0
    /\ treeError = ""
    /\ tpc = "idle"
    /\ treeScanned = <<>>
    /\ treeSeen = <<>>
    /\ treeData = <<>>

IdleDecl ==
    /\ decl = <<>>
    /\ temp_files = <<>>
    /\ mpc = "idle"

IdleToggle ==
    /\ present = {}
    /\ json = <<>>
    /\ windows = FALSE
    /\ outcomes = <<>>
    /\ before = <<>>
    /\ gpc = "idle"

\* No manifest taken yet.
NoManifest == [rel_path |-> <<>>, readable |-> TRUE, outcome |-> "none"]

\* The event checker's variables while another part of the program is modelled.
IdleEvents ==
    /\ ignored_events = <<>>
    /\ handlers = <<>>
    /\ emitters = <<>>
    /\ registers = <<>>
    /\ sightings = {}
    /\ skipped = {}
    /\ nmatches = 0
    /\ triggers = FALSE
    /\ report = <<>>
    /\ manifestsLeft = 0
    /\ files = <<>>
    /\ error = ""
    /\ taken = NoManifest
    /\ epc = "idle"

\* ---------------------------------------------------------------------------
\* Helpers
\* ---------------------------------------------------------------------------

Range(s) == {s[i] : i \in DOMAIN s}

Last(s) == s[Len(s)]

\* The sequence s without its elements equal to x, the others in their order.
Without(s, x) == SelectSeq(s, LAMBDA e : e # x)

\* The position of x in the duplicate-free sequence s (0 when absent).
IndexOf(s, x) == IF x \in Range(s) THEN CHOOSE i \in DOMAIN s : s[i] = x ELSE 0

\* ===========================================================================
\* eventchecker.py: CfxConfig.parse_resources (the same code is in
\* prototype-deptree.py, lines 342-406)
\* ===========================================================================

\* The most lines one run reads, over all config files together.
MaxLines == 4

\* The resource names and the command words the config lines are drawn from.
\* "set" is a command the code has no branch for; "START" is matched by
\* CFG_KEY (re.IGNORECASE) and then compared, as written, with the lower-case
\* command words.
CfgNames == {"foo", "bar"}
CfgCommands == {"ensure", "start", "restart", "stop"}
OtherCommands == {"set", "START"}

\* The config files: self.path, and another file an `exec` can name.
RootConfig == "server.cfg"
ConfigPaths == {"server.cfg", "extra.cfg"}

\* A line of a config file, by what lines 412-422 make of it:
\*   blank      line.strip() is empty                         (line 415)
\*   comment    the stripped line starts with '#'             (line 415)
\*   nomatch    re.match(CFG_KEY, line) is None               (lines 418-420)
\*   directive  CFG_KEY matches: groups `command` and `name`  (line 422)
CfgLine(kind, command, name) == [kind |-> kind, command |-> command, name |-> name]

ConfigLines ==
    {CfgLine("blank", "", ""), CfgLine("comment", "", ""), CfgLine("nomatch", "", "")}
    \cup {CfgLine("directive", c, n) : c \in CfgCommands, n \in CfgNames}
    \cup {CfgLine("directive", c, "foo") : c \in OtherCommands}
    \cup {CfgLine("directive", "exec", p) : p \in ConfigPaths}

\* line 429: info['command'] in ('ensure', 'start', 'restart')
StartCommands == {"ensure", "start", "restart"}

\* lines 429-435: add the name unless it is already started.
StartResourceMovingToEnd(s, name) == Append(Without(s, name), name)

StartResource(s, name) ==
    IF name \in Range(s) THEN s ELSE Append(s, name)

\* lines 437-439: del started[name] when the name is started.
StopResourceKeeping(s, name) == s

StopResource(s, name) ==
    IF name \in Range(s) THEN Without(s, name) ELSE s

\* lines 429-439: the effect of a directive other than exec on `started`.
ApplyDirective(s, line) ==
    IF line.command \in StartCommands THEN StartResource(s, line.name)
    ELSE IF line.command = "stop" THEN StopResource(s, line.name)
    ELSE s

\* lines 391-407, a call _parse_contents_r(path): a path already seen returns
\* at once (line 396); a new path is added to seen_paths and, when it can be
\* read, becomes the innermost active call. (Line 400 tests self.path, which
\* is a file whenever parse_resources got past line 385.)
EnterSeen(path) == IF path \in seen_paths THEN seen_paths ELSE seen_paths \cup {path}

EnterStackAgain(path, readable) ==
    IF ~readable THEN cfgStack ELSE Append(cfgStack, path)

EnterStack(path, readable) ==
    IF path \in seen_paths \/ ~readable THEN cfgStack
    ELSE Append(cfgStack, path)

StartConfig ==
    /\ cfgAvailable \in BOOLEAN
    /\ started = <<>>
    /\ seen_paths = {}
    /\ cfgStack = <<>>
    /\ cfgLog = <<>>
    /\ resources = <<>>
    /\ cpc = "init"

\* lines 384-389 and 446: parse_resources returns [] when no config is
\* available, and otherwise calls _parse_contents_r(self.path).
ParseResources ==
    /\ cpc = "init"
    /\ IF ~cfgAvailable
       THEN /\ cpc' = "done"
            /\ UNCHANGED <<seen_paths, cfgStack>>
       ELSE /\ cpc' = "run"
            /\ \E readable \in BOOLEAN :
                 /\ seen_paths' = EnterSeen(RootConfig)
                 /\ cfgStack' = EnterStack(RootConfig, readable)
    /\ UNCHANGED <<cfgAvailable, started, cfgLog, resources>>
    /\ UNCHANGED <<depVars, evVars, execVars, stripVars, treeVars, declVars, togVars>>

\* lines 411-439: one iteration of the loop over the lines of the file of the
\* innermost call.
ParseLine ==
    /\ cpc = "run"
    /\ cfgStack # <<>>
    /\ Len(cfgLog) < MaxLines
    /\ \E line \in ConfigLines, readable \in BOOLEAN :
         /\ cfgLog' = Append(cfgLog, line)
         /\ IF line.kind # "directive"
            THEN UNCHANGED <<started, seen_paths, cfgStack>>
            ELSE IF line.command = "exec"
            THEN /\ seen_paths' = EnterSeen(line.name)
                 /\ cfgStack' = EnterStack(line.name, readable)
                 /\ UNCHANGED started
            ELSE /\ started' = ApplyDirective(started, line)
                 /\ UNCHANGED <<seen_paths, cfgStack>>
    /\ UNCHANGED <<cfgAvailable, resources, cpc>>
    /\ UNCHANGED <<depVars, evVars, execVars, stripVars, treeVars, declVars, togVars>>

\* The loop of line 411 runs out of lines: the innermost call returns.
EndOfFile ==
    /\ cpc = "run"
    /\ cfgStack # <<>>
    /\ cfgStack' = SubSeq(cfgStack, 1, Len(cfgStack) - 1)
    /\ UNCHANGED <<cfgAvailable, started, seen_paths, cfgLog, resources, cpc>>
    /\ UNCHANGED <<depVars, evVars, execVars, stripVars, treeVars, declVars, togVars>>

\* line 448: the outermost call has returned: return list(started).
ParseReturn ==
    /\ cpc = "run"
    /\ cfgStack = <<>>
    /\ resources' = started
    /\ cpc' = "done"
    /\ UNCHANGED <<cfgAvailable, started, seen_paths, cfgStack, cfgLog>>
    /\ UNCHANGED <<depVars, evVars, execVars, stripVars, treeVars, declVars, togVars>>

NextConfig == ParseResources \/ ParseLine \/ EndOfFile \/ ParseReturn

InitConfig == StartConfig /\ IdleDeps /\ IdleEvents /\ IdleExec /\ IdleStrip /\ IdleTree /\ IdleDecl /\ IdleToggle

SpecConfig == InitConfig /\ [][NextConfig]_vars

\* ---- properties of the startup-config simulation ----

\* The line the loop has just taken is `line`.
JustRead(line) == cfgLog' = Append(cfgLog, line)

\* The positions of the log holding a directive of `commands` for `name`.
DirectivesAt(log, commands, name) ==
    {i \in DOMAIN log : /\ log[i].kind = "directive"
                        /\ log[i].command \in commands
                        /\ log[i].name = name}

\* The position of the first activation of `name` (0 when never started).
FirstStart(log, name) ==
    LET at == DirectivesAt(log, StartCommands, name)
    IN  IF at = {} THEN 0 ELSE CHOOSE i \in at : \A j \in at : i <= j

\* `name` is started, then stopped while started, then started again.
StartedStoppedStarted(log, name) ==
    \E i, j, k \in DOMAIN log :
        /\ i < j /\ j < k
        /\ i \in DirectivesAt(log, StartCommands, name)
        /\ j \in DirectivesAt(log, {"stop"}, name)
        /\ k \in DirectivesAt(log, StartCommands, name)

\* The command of the last ensure/start/restart/stop directive for `name`
\* ("none" when there is none).
LastDirective(log, name) ==
    LET at == DirectivesAt(log, StartCommands \cup {"stop"}, name)
    IN  IF at = {} THEN "none"
        ELSE log[CHOOSE i \in at : \A j \in at : j <= i].command

\* C8: a name that is started, then stopped, then started again is, in the
\* returned list, before every name whose first activation came after its own
\* first activation: the stop/start cycle does not move it behind them.
C8_RestartKeepsFirstPosition ==
    cpc = "done" =>
        \A n, m \in Range(resources) :
            ( /\ n # m
              /\ StartedStoppedStarted(cfgLog, n)
              /\ FirstStart(cfgLog, n) < FirstStart(cfgLog, m) )
            => IndexOf(resources, n) < IndexOf(resources, m)

\* C9: an ensure, start or restart directive for a name that is already
\* started leaves `started` as it is (members and order); for a name that is
\* not started it appends the name after all names of `started`.
C9_StartAppendsOrKeeps ==
    [][ \A line \in ConfigLines :
          ( /\ JustRead(line)
            /\ line.kind = "directive"
            /\ line.command \in StartCommands )
          => IF line.name \in Range(started)
             THEN started' = started
             ELSE started' = Append(started, line.name) ]_vars

\* C9's case: a start directive for the started name foo was read while bar
\* was started after it, and a directive for a new name was read before.
C9_Witness ==
    /\ Len(cfgLog) >= 3
    /\ Last(cfgLog).kind = "directive"
    /\ Last(cfgLog).command \in StartCommands
    /\ Last(cfgLog).name = "foo"
    /\ started = <<"foo", "bar">>
    /\ DirectivesAt(cfgLog, {"stop"}, "foo") = {}

\* C10: a name is in the returned list exactly when the last ensure, start,
\* restart or stop directive for it was not a stop; and a stop for a name that
\* is not started, a command the code does not know, a blank line and a
\* comment line all leave `started` unchanged.
C10_EnabledIffLastIsStart ==
    /\ [](cpc = "done" =>
            \A n \in CfgNames :
                n \in Range(resources) <=> LastDirective(cfgLog, n) \in StartCommands)
    /\ [][ \A line \in ConfigLines :
             ( /\ JustRead(line)
               /\ \/ line.kind \in {"blank", "comment", "nomatch"}
                  \/ /\ line.kind = "directive"
                     /\ line.command \notin StartCommands \cup {"stop", "exec"}
                  \/ /\ line.kind = "directive"
                     /\ line.command = "stop"
                     /\ line.name \notin Range(started) )
             => started' = started ]_vars

\* C10's case: parse_resources has returned after foo was started and stopped,
\* bar was started, and a stop for a name that was not started was read.
C10_Witness ==
    /\ cpc = "done"
    /\ resources = <<"bar">>
    /\ LastDirective(cfgLog, "foo") = "stop"
    /\ LastDirective(cfgLog, "bar") \in StartCommands
    /\ cfgLog[1] = CfgLine("directive", "stop", "foo")

\* C28: a directive takes effect whatever the letter case of its command
\* word: the line `START foo` changes `started` exactly as `start foo` does.
C28_CommandCaseIgnored ==
    [][ JustRead(CfgLine("directive", "START", "foo"))
          => started' = StartResource(started, "foo") ]_vars

\* ===========================================================================
\* eventchecker.py: CfxConfig.parse_resources over given config files, whose
\* `exec` directives may name each other
\* ===========================================================================

\* The most lines of one config file.
MaxFileLines == 2

\* The lines the given config files are made of.
ExecLines ==
    {CfgLine("directive", "exec", p) : p \in ConfigPaths}
    \cup {CfgLine("directive", "ensure", "foo"), CfgLine("directive", "stop", "foo")}

\* What is written behind the command word of a line of a given file, and
\* its characters.
CfgArgs == {"server.cfg", "extra.cfg", "sub/extra.cfg", "sub", "foo", "bar"}

CfgArgChars(written) ==
    CASE written = "server.cfg" -> <<"s", "e", "r", "v", "e", "r", ".", "c", "f", "g">>
      [] written = "extra.cfg" -> <<"e", "x", "t", "r", "a", ".", "c", "f", "g">>
      [] written = "sub/extra.cfg" -> <<"s", "u", "b", "/", "e", "x", "t", "r", "a", ".", "c", "f", "g">>
      [] written = "sub" -> <<"s", "u", "b">>
      [] written = "foo" -> <<"f", "o", "o">>
      [] written = "bar" -> <<"b", "a", "r">>

\* lines 135-138: the characters of the group `name` of CFG_KEY, [a-z\d_.-]
\* with re.IGNORECASE
CfgNameChars ==
    {"a", "b", "c", "d", "e", "f", "g", "h", "i", "j", "k", "l", "m", "n", "o",
     "p", "q", "r", "s", "t", "u", "v", "w", "x", "y", "z",
     "A", "B", "C", "D", "E", "F", "G", "H", "I", "J", "K", "L", "M", "N", "O",
     "P", "Q", "R", "S", "T", "U", "V", "W", "X", "Y", "Z",
     "0", "1", "2", "3", "4", "5", "6", "7", "8", "9", "_", ".", "-"}

\* lines 418-422: info['name'], the longest run of name characters behind
\* the command word (re.match does not have to reach the end of the line).
cfg_name(written) ==
    LET c == CfgArgChars(written)
        n == Cardinality({k \in 1..Len(c) : \A j \in 1..k : c[j] \in CfgNameChars})
    IN  CHOOSE s \in CfgArgs : CfgArgChars(s) = SubSeq(c, 1, n)

\* lines 418-422: the groups of the match for a line of a given file
cfg_match(line) == CfgLine(line.kind, line.command, cfg_name(line.name))

\* contents.splitlines() of a config file
FileContents == UNION {[1..n -> ExecLines] : n \in 0..MaxFileLines}

\* The config files that can be read (line 404), each with its lines.
GivenFiles == UNION {[paths -> FileContents] : paths \in SUBSET ConfigPaths}

\* line 404: path.read_text succeeds
Readable(path) == path \in DOMAIN cfgFiles

\* lines 394-396: the warning of a path already seen
EnterWarned(path) ==
    IF path \in seen_paths THEN cfgWarned \cup {path} ELSE cfgWarned

\* The line counters of the active calls after a call for `path` that found
\* the counters `pos`: a call that reads the file starts at its first line.
EnterPos(pos, stack) ==
    IF Len(stack) > Len(cfgStack) THEN Append(pos, 0) ELSE pos

\* lines 358-389: a config path that is a file was given; nothing is parsed yet.
GivenConfig ==
    /\ cfgAvailable = TRUE
    /\ started = <<>>
    /\ seen_paths = {}
    /\ cfgStack = <<>>
    /\ cfgLog = <<>>
    /\ resources = <<>>
    /\ cpc = "init"
    /\ cfgFiles \in GivenFiles
    /\ cfgPos = <<>>
    /\ cfgWarned = {}

\* line 446: _parse_contents_r(self.path)
ExecParseResources ==
    /\ cpc = "init"
    /\ cpc' = "run"
    /\ seen_paths' = EnterSeen(RootConfig)
    /\ cfgWarned' = EnterWarned(RootConfig)
    /\ LET stack == EnterStack(RootConfig, Readable(RootConfig))
       IN  /\ cfgStack' = stack
           /\ cfgPos' = EnterPos(cfgPos, stack)
    /\ UNCHANGED <<cfgAvailable, started, cfgLog, resources, cfgFiles>>
    /\ UNCHANGED <<depVars, evVars, stripVars, treeVars, declVars, togVars>>

\* lines 411-439: the innermost call takes the next line of its file; an
\* exec line calls _parse_contents_r for the named file (lines 424-427) and
\* the loop goes on behind it when that call returns.
ExecLine ==
    /\ cpc = "run"
    /\ cfgStack # <<>>
    /\ Last(cfgPos) < Len(cfgFiles[Last(cfgStack)])
    /\ LET line == cfgFiles[Last(cfgStack)][Last(cfgPos) + 1]
           info == cfg_match(line)
           pos == [cfgPos EXCEPT ![Len(cfgPos)] = @ + 1]
       IN  /\ cfgLog' = Append(cfgLog, line)
           /\ IF info.command = "exec"
              THEN \* line 425: self.path.parent.joinpath(info['name']); the
                   \* paths of the model are relative to self.path.parent
                   LET new_path == info.name
                       stack == EnterStack(new_path, Readable(new_path))
                   IN  /\ seen_paths' = EnterSeen(new_path)
                       /\ cfgWarned' = EnterWarned(new_path)
                       /\ cfgStack' = stack
                       /\ cfgPos' = EnterPos(pos, stack)
                       /\ UNCHANGED started
              ELSE /\ started' = ApplyDirective(started, info)
                   /\ cfgPos' = pos
                   /\ UNCHANGED <<seen_paths, cfgWarned, cfgStack>>
    /\ UNCHANGED <<cfgAvailable, resources, cpc, cfgFiles>>
    /\ UNCHANGED <<depVars, evVars, stripVars, treeVars, declVars, togVars>>

\* The loop of line 411 has taken the last line of the file: the innermost
\* call returns.
ExecEndOfFile ==
    /\ cpc = "run"
    /\ cfgStack # <<>>
    /\ Last(cfgPos) = Len(cfgFiles[Last(cfgStack)])
    /\ cfgStack' = SubSeq(cfgStack, 1, Len(cfgStack) - 1)
    /\ cfgPos' = SubSeq(cfgPos, 1, Len(cfgPos) - 1)
    /\ UNCHANGED <<cfgAvailable, started, seen_paths, cfgLog, resources, cpc,
                   cfgFiles, cfgWarned>>
    /\ UNCHANGED <<depVars, evVars, stripVars, treeVars, declVars, togVars>>

NextExec == ExecParseResources \/ ExecLine \/ ExecEndOfFile \/ ParseReturn

InitExec == GivenConfig /\ IdleDeps /\ IdleEvents /\ IdleStrip /\ IdleTree /\ IdleDecl /\ IdleToggle

\* The interpreter keeps running the call until it returns.
SpecExec == InitExec /\ [][NextExec]_vars /\ WF_vars(NextExec)

\* A root config that execs files of its directory and of the directory
\* sub/ under it (the path "sub" is that directory: it cannot be read).
RootLines ==
    {CfgLine("directive", "exec", "extra.cfg"),
     CfgLine("directive", "exec", "sub/extra.cfg"),
     CfgLine("directive", "ensure", "foo"), CfgLine("directive", "stop", "foo")}

RootContents == UNION {[1..n -> RootLines] : n \in 0..MaxFileLines}

NestedContents ==
    { << CfgLine("directive", "ensure", "bar") >>,
      << CfgLine("directive", "stop", "foo"), CfgLine("directive", "exec", "server.cfg") >>,
      << CfgLine("directive", "exec", "sub/extra.cfg"), CfgLine("directive", "ensure", "bar") >> }

NestedPaths == {"extra.cfg", "sub/extra.cfg"}

GivenTrees ==
    UNION {{[p \in paths \cup {RootConfig} |->
                IF p = RootConfig THEN root ELSE nested[p]] :
                root \in RootContents, nested \in [paths -> NestedContents]} :
           paths \in SUBSET NestedPaths}

\* lines 358-389 with the root config and the files of its tree given
GivenConfigTree ==
    /\ cfgAvailable = TRUE
    /\ started = <<>>
    /\ seen_paths = {}
    /\ cfgStack = <<>>
    /\ cfgLog = <<>>
    /\ resources = <<>>
    /\ cpc = "init"
    /\ cfgFiles \in GivenTrees
    /\ cfgPos = <<>>
    /\ cfgWarned = {}

InitExecTree == GivenConfigTree /\ IdleDeps /\ IdleEvents /\ IdleStrip /\ IdleTree /\ IdleDecl /\ IdleToggle

SpecExecTree == InitExecTree /\ [][NextExec]_vars

\* ---- properties of parse_resources over given files ----

\* The directives of the file `path` from its line i on, every exec replaced
\* by the directives of the file it names (a path relative to the root
\* config's directory); `seen` are the files already entered.
RECURSIVE ExpandedFrom(_, _, _)
ExpandedFrom(path, i, seen) ==
    IF ~Readable(path) \/ i > Len(cfgFiles[path]) THEN [lines |-> <<>>, seen |-> seen]
    ELSE LET line == cfgFiles[path][i]
         IN  IF line.command = "exec"
             THEN LET inner == IF line.name \in seen THEN [lines |-> <<>>, seen |-> seen]
                               ELSE ExpandedFrom(line.name, 1, seen \cup {line.name})
                      rest == ExpandedFrom(path, i + 1, inner.seen)
                  IN  [lines |-> inner.lines \o rest.lines, seen |-> rest.seen]
             ELSE LET rest == ExpandedFrom(path, i + 1, seen)
                  IN  [lines |-> <<line>> \o rest.lines, seen |-> rest.seen]

RECURSIVE ApplyAll(_, _)
ApplyAll(s, lines) ==
    IF lines = <<>> THEN s
    ELSE ApplyAll(ApplyDirective(s, Head(lines)), Tail(lines))

\* C24: the directives are applied in sequence with every exec expanded in
\* place: the resources parse_resources returns are those of the root
\* config's lines with each exec line replaced by the lines of the file it
\* names, resolved against the root config's directory.
C24_ExecExpandedInPlace ==
    cpc = "done" =>
        resources = ApplyAll(<<>>, ExpandedFrom(RootConfig, 1, {RootConfig}).lines)

\* The number of lines of the readable files among `paths`.
RECURSIVE LinesIn(_)
LinesIn(paths) ==
    IF paths = {} THEN 0
    ELSE LET p == CHOOSE q \in paths : TRUE
         IN  (IF Readable(p) THEN Len(cfgFiles[p]) ELSE 0) + LinesIn(paths \ {p})

\* C11: whatever the files exec, parse_resources returns; no file is read by
\* two active calls or read twice (the lines taken never exceed the lines of
\* the files reached), a path met again only gets the warning, and at the
\* return every line of every file reached has been taken, the lines behind
\* an exec included.
C11_CyclicExecTerminates ==
    /\ [](\A i, j \in DOMAIN cfgStack : i # j => cfgStack[i] # cfgStack[j])
    /\ [](Len(cfgLog) <= LinesIn(seen_paths))
    /\ [](cfgWarned \subseteq seen_paths)
    /\ [](cpc = "done" => Len(cfgLog) = LinesIn(seen_paths))
    /\ <>(cpc = "done")

\* C11's case: server.cfg execs extra.cfg and extra.cfg execs server.cfg; the
\* warning was printed for server.cfg and the `ensure foo` behind the exec of
\* server.cfg was applied before the return.
C11_Witness ==
    /\ cpc = "done"
    /\ Readable("server.cfg") /\ Readable("extra.cfg")
    /\ cfgFiles["server.cfg"] = << CfgLine("directive", "exec", "extra.cfg"),
                                   CfgLine("directive", "ensure", "foo") >>
    /\ cfgFiles["extra.cfg"] # <<>>
    /\ cfgFiles["extra.cfg"][1] = CfgLine("directive", "exec", "server.cfg")
    /\ "server.cfg" \in cfgWarned
    /\ resources = <<"foo">>

\* ===========================================================================
\* eventchecker.py: CfxEventChecker.process_match, EventMatch and results
\* ===========================================================================

\* The most process_match calls of one run.
MaxMatches == 3

\* lines 31-89
IGNORED_EVENTS == <<
    "__cfx_internal:*",
    "__cfx_nui:*",
    "gameEventTriggered",
    "onClientResourceStart",
    "onClientResourceStop",
    "onResourceStart",
    "onResourceStarting",
    "onResourceStop",
    "onServerResourceStart",
    "onServerResourceStop",
    "onResourceListRefresh",
    "playerConnecting",
    "playerDropped",
    "populationPedCreating",
    "rconCommand",
    "weaponDamageEvent",
    "vehicleComponentControlEvent",
    "respawnPlayerPedEvent",
    "explosionEvent",
    "entityCreated",
    "entityCreating",
    "entityRemoved",
    "playerEnteredScope",
    "playerLeftScope",
    "baseevents:*",
    "chatMessage",
    "chat:*",
    "hostingSession",
    "hostedSession",
    "sessionHostResult",
    "playerSpawned",
    "mapmanager:*",
    "onClientMapStart",
    "onClientMapStop",
    "onClientGameTypeStart",
    "onClientGameTypeStop",
    "onMapStart",
    "onMapStop",
    "onGameTypeStart",
    "onGameTypeStop" >>

\* The characters of the event names, patterns, directory names and file
\* names the model uses.
CharStrings == {
    "__cfx_internal:*", "__cfx_nui:*", "gameEventTriggered",
    "onClientResourceStart", "onClientResourceStop", "onResourceStart",
    "onResourceStarting", "onResourceStop", "onServerResourceStart",
    "onServerResourceStop", "onResourceListRefresh", "playerConnecting",
    "playerDropped", "populationPedCreating", "rconCommand",
    "weaponDamageEvent", "vehicleComponentControlEvent",
    "respawnPlayerPedEvent", "explosionEvent", "entityCreated",
    "entityCreating", "entityRemoved", "playerEnteredScope",
    "playerLeftScope", "baseevents:*", "chatMessage", "chat:*",
    "hostingSession", "hostedSession", "sessionHostResult", "playerSpawned",
    "mapmanager:*", "onClientMapStart", "onClientMapStop",
    "onClientGameTypeStart", "onClientGameTypeStop", "onMapStart",
    "onMapStop", "onGameTypeStart", "onGameTypeStop", "esx:?", "foo",
    "esx:a", "chat:x", "bar", "bad", "[cat]", "baz", "qux", "a.lua", "b.js",
    "c.txt", "*.lua", "@es/x.lua", "@C/x.lua", "A", "B", "C", "ign" }

CharsOf(s) ==
    CASE s = "__cfx_internal:*" -> <<"_", "_", "c", "f", "x", "_", "i", "n", "t", "e", "r", "n", "a", "l", ":", "*">>
      [] s = "__cfx_nui:*" -> <<"_", "_", "c", "f", "x", "_", "n", "u", "i", ":", "*">>
      [] s = "gameEventTriggered" -> <<"g", "a", "m", "e", "E", "v", "e", "n", "t", "T", "r", "i", "g", "g", "e", "r", "e", "d">>
      [] s = "onClientResourceStart" -> <<"o", "n", "C", "l", "i", "e", "n", "t", "R", "e", "s", "o", "u", "r", "c", "e", "S", "t", "a", "r", "t">>
      [] s = "onClientResourceStop" -> <<"o", "n", "C", "l", "i", "e", "n", "t", "R", "e", "s", "o", "u", "r", "c", "e", "S", "t", "o", "p">>
      [] s = "onResourceStart" -> <<"o", "n", "R", "e", "s", "o", "u", "r", "c", "e", "S", "t", "a", "r", "t">>
      [] s = "onResourceStarting" -> <<"o", "n", "R", "e", "s", "o", "u", "r", "c", "e", "S", "t", "a", "r", "t", "i", "n", "g">>
      [] s = "onResourceStop" -> <<"o", "n", "R", "e", "s", "o", "u", "r", "c", "e", "S", "t", "o", "p">>
      [] s = "onServerResourceStart" -> <<"o", "n", "S", "e", "r", "v", "e", "r", "R", "e", "s", "o", "u", "r", "c", "e", "S", "t", "a", "r", "t">>
      [] s = "onServerResourceStop" -> <<"o", "n", "S", "e", "r", "v", "e", "r", "R", "e", "s", "o", "u", "r", "c", "e", "S", "t", "o", "p">>
      [] s = "onResourceListRefresh" -> <<"o", "n", "R", "e", "s", "o", "u", "r", "c", "e", "L", "i", "s", "t", "R", "e", "f", "r", "e", "s", "h">>
      [] s = "playerConnecting" -> <<"p", "l", "a", "y", "e", "r", "C", "o", "n", "n", "e", "c", "t", "i", "n", "g">>
      [] s = "playerDropped" -> <<"p", "l", "a", "y", "e", "r", "D", "r", "o", "p", "p", "e", "d">>
      [] s = "populationPedCreating" -> <<"p", "o", "p", "u", "l", "a", "t", "i", "o", "n", "P", "e", "d", "C", "r", "e", "a", "t", "i", "n", "g">>
      [] s = "rconCommand" -> <<"r", "c", "o", "n", "C", "o", "m", "m", "a", "n", "d">>
      [] s = "weaponDamageEvent" -> <<"w", "e", "a", "p", "o", "n", "D", "a", "m", "a", "g", "e", "E", "v", "e", "n", "t">>
      [] s = "vehicleComponentControlEvent" -> <<"v", "e", "h", "i", "c", "l", "e", "C", "o", "m", "p", "o", "n", "e", "n", "t", "C", "o", "n", "t", "r", "o", "l", "E", "v", "e", "n", "t">>
      [] s = "respawnPlayerPedEvent" -> <<"r", "e", "s", "p", "a", "w", "n", "P", "l", "a", "y", "e", "r", "P", "e", "d", "E", "v", "e", "n", "t">>
      [] s = "explosionEvent" -> <<"e", "x", "p", "l", "o", "s", "i", "o", "n", "E", "v", "e", "n", "t">>
      [] s = "entityCreated" -> <<"e", "n", "t", "i", "t", "y", "C", "r", "e", "a", "t", "e", "d">>
      [] s = "entityCreating" -> <<"e", "n", "t", "i", "t", "y", "C", "r", "e", "a", "t", "i", "n", "g">>
      [] s = "entityRemoved" -> <<"e", "n", "t", "i", "t", "y", "R", "e", "m", "o", "v", "e", "d">>
      [] s = "playerEnteredScope" -> <<"p", "l", "a", "y", "e", "r", "E", "n", "t", "e", "r", "e", "d", "S", "c", "o", "p", "e">>
      [] s = "playerLeftScope" -> <<"p", "l", "a", "y", "e", "r", "L", "e", "f", "t", "S", "c", "o", "p", "e">>
      [] s = "baseevents:*" -> <<"b", "a", "s", "e", "e", "v", "e", "n", "t", "s", ":", "*">>
      [] s = "chatMessage" -> <<"c", "h", "a", "t", "M", "e", "s", "s", "a", "g", "e">>
      [] s = "chat:*" -> <<"c", "h", "a", "t", ":", "*">>
      [] s = "hostingSession" -> <<"h", "o", "s", "t", "i", "n", "g", "S", "e", "s", "s", "i", "o", "n">>
      [] s = "hostedSession" -> <<"h", "o", "s", "t", "e", "d", "S", "e", "s", "s", "i", "o", "n">>
      [] s = "sessionHostResult" -> <<"s", "e", "s", "s", "i", "o", "n", "H", "o", "s", "t", "R", "e", "s", "u", "l", "t">>
      [] s = "playerSpawned" -> <<"p", "l", "a", "y", "e", "r", "S", "p", "a", "w", "n", "e", "d">>
      [] s = "mapmanager:*" -> <<"m", "a", "p", "m", "a", "n", "a", "g", "e", "r", ":", "*">>
      [] s = "onClientMapStart" -> <<"o", "n", "C", "l", "i", "e", "n", "t", "M", "a", "p", "S", "t", "a", "r", "t">>
      [] s = "onClientMapStop" -> <<"o", "n", "C", "l", "i", "e", "n", "t", "M", "a", "p", "S", "t", "o", "p">>
      [] s = "onClientGameTypeStart" -> <<"o", "n", "C", "l", "i", "e", "n", "t", "G", "a", "m", "e", "T", "y", "p", "e", "S", "t", "a", "r", "t">>
      [] s = "onClientGameTypeStop" -> <<"o", "n", "C", "l", "i", "e", "n", "t", "G", "a", "m", "e", "T", "y", "p", "e", "S", "t", "o", "p">>
      [] s = "onMapStart" -> <<"o", "n", "M", "a", "p", "S", "t", "a", "r", "t">>
      [] s = "onMapStop" -> <<"o", "n", "M", "a", "p", "S", "t", "o", "p">>
      [] s = "onGameTypeStart" -> <<"o", "n", "G", "a", "m", "e", "T", "y", "p", "e", "S", "t", "a", "r", "t">>
      [] s = "onGameTypeStop" -> <<"o", "n", "G", "a", "m", "e", "T", "y", "p", "e", "S", "t", "o", "p">>
      [] s = "esx:?" -> <<"e", "s", "x", ":", "?">>
      [] s = "foo" -> <<"f", "o", "o">>
      [] s = "esx:a" -> <<"e", "s", "x", ":", "a">>
      [] s = "chat:x" -> <<"c", "h", "a", "t", ":", "x">>
      [] s = "bar" -> <<"b", "a", "r">>
      [] s = "bad" -> <<"b", "a", "d">>
      [] s = "[cat]" -> <<"[", "c", "a", "t", "]">>
      [] s = "baz" -> <<"b", "a", "z">>
      [] s = "qux" -> <<"q", "u", "x">>
      [] s = "a.lua" -> <<"a", ".", "l", "u", "a">>
      [] s = "b.js" -> <<"b", ".", "j", "s">>
      [] s = "c.txt" -> <<"c", ".", "t", "x", "t">>
      [] s = "*.lua" -> <<"*", ".", "l", "u", "a">>
      [] s = "@es/x.lua" -> <<"@", "e", "s", "/", "x", ".", "l", "u", "a">>
      [] s = "@C/x.lua" -> <<"@", "C", "/", "x", ".", "l", "u", "a">>
      [] s = "A" -> <<"A">>
      [] s = "B" -> <<"B">>
      [] s = "C" -> <<"C">>
      [] s = "ign" -> <<"i", "g", "n">>

CharTable == [s \in CharStrings |-> CharsOf(s)]

Chars(s) == CharTable[s]

\* fnmatch.fnmatch(name, pattern) on a POSIX system (normcase is the
\* identity): '*' matches any run of characters, '?' any one character,
\* another character itself. (No pattern used here has a '[' class.)
RECURSIVE GlobFrom(_, _, _, _)
GlobFrom(n, i, p, j) ==
    IF j > Len(p) THEN i > Len(n)
    ELSE IF p[j] = "*"
         THEN GlobFrom(n, i, p, j + 1) \/ (i <= Len(n) /\ GlobFrom(n, i + 1, p, j))
    ELSE IF i > Len(n) THEN FALSE
    ELSE IF p[j] = "?" THEN GlobFrom(n, i + 1, p, j + 1)
    ELSE n[i] = p[j] /\ GlobFrom(n, i + 1, p, j + 1)

fnmatch(name, pattern) == GlobFrom(Chars(name), 1, Chars(pattern), 1)

\* line 248-249: EventMatch.is_ignored_event
is_ignored_event_never(event_name, patterns) == FALSE

is_ignored_event(event_name, patterns) ==
    \E i \in DOMAIN patterns : fnmatch(event_name, patterns[i])

\* list(dict.fromkeys(xs)): xs without the repeats of an earlier element, the
\* first occurrences in their order.
Dedupe(xs) ==
    LET firsts == {i \in DOMAIN xs : \A j \in 1..(i - 1) : xs[j] # xs[i]}
        nth(k) == CHOOSE i \in firsts : Cardinality({j \in firsts : j <= i}) = k
    IN  [k \in 1..Cardinality(firsts) |-> xs[nth(k)]]

\* The --ignore lists a run may be given.
IgnoreEventsArgs == { <<>>, <<"esx:?", "chat:*">> }

\* lines 219-246: the function names of each role.
HandlerFunctions ==
    {"AddEventHandler", "on", "onNet", "addEventListener", "addNetEventListener"}
EmitterFunctions ==
    {"TriggerEvent", "TriggerClientEvent", "TriggerServerEvent", "emit", "emitNet",
     "TriggerLatentClientEvent", "TriggerLatentServerEvent"}
RegisterFunctions == {"RegisterNetEvent", "RegisterServerEvent"}

is_event_handler(func) == func \in HandlerFunctions

is_event_emitter_lua(func) ==
    func \in {"TriggerEvent", "TriggerClientEvent", "TriggerServerEvent"}

is_event_emitter(func) == func \in EmitterFunctions

is_net_event_register(func) == func \in RegisterFunctions

\* The call-sites process_match is given: the function and event name of the
\* match, the script's path, the line number and the script's role.
MatchFunctions == {"AddEventHandler", "TriggerEvent", "RegisterNetEvent"}
MatchEvents == {"foo", "esx:a", "chat:x", "onClientResourceStart"}
ScriptPaths == {"a.lua", "b.js"}
ScriptTypeOf(path) == IF path = "a.lua" THEN "client" ELSE "server"
LineNumbers == {1, 2}

MatchCalls ==
    {[func |-> f, event |-> e, path |-> p, line |-> l, script_type |-> ScriptTypeOf(p)] :
        f \in MatchFunctions, e \in MatchEvents, p \in ScriptPaths, l \in LineNumbers}

\* lines 204-209: EventMatch.add, self.locations[path] = LocationInfo(...).
\* The dict `locations` is the sequence of its values: a new key is appended,
\* an existing key keeps its place and gets the new value.
LocationInfo(path, line, script_type) ==
    [path |-> path, line |-> line, script_type |-> script_type]

EventMatchAdd(locations, path, line, script_type) ==
    IF \E i \in DOMAIN locations : locations[i].path = path
    THEN [i \in DOMAIN locations |->
            IF locations[i].path = path
            THEN LocationInfo(path, line, script_type)
            ELSE locations[i]]
    ELSE Append(locations, LocationInfo(path, line, script_type))

\* The keys of an index, and its record for a key.
Keys(index) == {index[i].event : i \in DOMAIN index}
RecordOf(index, event) == index[CHOOSE i \in DOMAIN index : index[i].event = event]

\* lines 550-553 (and 556-559, 562-565): insert the new EventMatch when the
\* name is not a key, then add the location to the name's record.
Record(index, call) ==
    LET with == IF call.event \in Keys(index) THEN index
                ELSE Append(index, [event |-> call.event, func |-> call.func,
                                    locations |-> <<>>])
    IN  [i \in DOMAIN with |->
            IF with[i].event = call.event
            THEN [with[i] EXCEPT !.locations =
                    EventMatchAdd(@, call.path, call.line, call.script_type)]
            ELSE with[i]]

\* The role an index stands for, as recorded with a sighting.
RoleOf(func) ==
    IF is_event_handler(func) THEN "handler"
    ELSE IF is_event_emitter(func) THEN "emitter"
    ELSE "register"

\* The state process_match reads and writes.
EventState ==
    [handlers |-> handlers, emitters |-> emitters, registers |-> registers,
     sightings |-> sightings, skipped |-> skipped, nmatches |-> nmatches]

\* lines 542-565: process_match, from the state st
process_match(st, call) ==
    IF is_ignored_event(call.event, ignored_events)
    THEN [st EXCEPT !.skipped = @ \cup {call.event}, !.nmatches = @ + 1]
    ELSE [st EXCEPT
            !.handlers = IF is_event_handler(call.func) THEN Record(@, call) ELSE @,
            !.emitters = IF is_event_emitter(call.func) THEN Record(@, call) ELSE @,
            !.registers = IF is_net_event_register(call.func) THEN Record(@, call) ELSE @,
            !.sightings = @ \cup {[role |-> RoleOf(call.func), event |-> call.event,
                                   path |-> call.path, line |-> call.line]},
            !.nmatches = @ + 1]

\* lines 535-540: process_match for each match of a file, in order.
RECURSIVE process_matches(_, _)
process_matches(st, calls) ==
    IF calls = <<>> THEN st
    ELSE process_matches(process_match(st, Head(calls)), Tail(calls))

\* The state after the calls is st.
BecomesEventState(st) ==
    /\ handlers' = st.handlers
    /\ emitters' = st.emitters
    /\ registers' = st.registers
    /\ sightings' = st.sightings
    /\ skipped' = st.skipped
    /\ nmatches' = st.nmatches

\* line 251-255: EventMatch.formatted_paths, one `path:line` per location.
FormattedPaths(rec) ==
    [i \in DOMAIN rec.locations |-> <<rec.locations[i].path, rec.locations[i].line>>]

\* lines 598-604: a block for every record of `check` whose name is not a key
\* of `compare`.
ReportBlocksOfAll(check, compare) ==
    [i \in DOMAIN check |-> [header |-> check[i].event, paths |-> FormattedPaths(check[i])]]

ReportBlocks(check, compare) ==
    LET kept == SelectSeq(check, LAMBDA rec : rec.event \notin Keys(compare))
    IN  [i \in DOMAIN kept |-> [header |-> kept[i].event, paths |-> FormattedPaths(kept[i])]]

\* lines 459-471: CfxEventChecker.__init__
StartEvents ==
    /\ \E ignore_events \in IgnoreEventsArgs :
         ignored_events = Dedupe(IGNORED_EVENTS \o ignore_events)
    /\ handlers = <<>>
    /\ emitters = <<>>
    /\ registers = <<>>
    /\ sightings = {}
    /\ skipped = {}
    /\ nmatches = 0
    /\ triggers = FALSE
    /\ report = <<>>
    /\ manifestsLeft = 0
    /\ files = <<>>
    /\ error = ""
    /\ taken = NoManifest
    /\ epc = "process"

\* A call of process_match with any call-site.
MatchCall ==
    /\ epc = "process"
    /\ nmatches < MaxMatches
    /\ \E call \in MatchCalls : BecomesEventState(process_match(EventState, call))
    /\ UNCHANGED <<ignored_events, triggers, report, manifestsLeft, files, error,
                   taken, epc>>
    /\ UNCHANGED <<depVars, cfgVars, execVars, stripVars, treeVars, declVars, togVars>>

\* lines 646-647 and 573-604: process() has returned; results(out, triggers)
Results ==
    /\ epc = "process"
    /\ manifestsLeft = 0
    /\ files = <<>>
    /\ \E t \in BOOLEAN :
         /\ triggers' = t
         /\ report' = IF t THEN ReportBlocks(emitters, handlers)
                      ELSE ReportBlocks(handlers, emitters)
    /\ epc' = "done"
    /\ UNCHANGED <<ignored_events, handlers, emitters, registers, sightings,
                   skipped, nmatches, manifestsLeft, files, error, taken>>
    /\ UNCHANGED <<depVars, cfgVars, execVars, stripVars, treeVars, declVars, togVars>>

NextMatch == MatchCall \/ Results

InitMatch == StartEvents /\ IdleConfig /\ IdleDeps /\ IdleExec /\ IdleStrip /\ IdleTree /\ IdleDecl /\ IdleToggle

SpecMatch == InitMatch /\ [][NextMatch]_vars

\* ---------------------------------------------------------------------------
\* process_match over every function name the two patterns match
\* ---------------------------------------------------------------------------

\* The most process_match calls of a run over the patterns' functions.
MaxPatternCalls == 2

\* lines 99-106: the alternation of LUA_EVENTS,
\*   AddEventHandler|Trigger(?:Client|Server)?Event|Register(?:Net|Server)Event
LuaEventFunctions ==
    {"AddEventHandler", "TriggerEvent", "TriggerClientEvent", "TriggerServerEvent",
     "RegisterNetEvent", "RegisterServerEvent"}

\* lines 124-133: the alternation of JS_EVENTS,
\*   on|onNet|emit|emitNet|add(?:Net)?EventListener|AddEventHandler
\*   |Trigger(?:(?:Latent)?(?:Client|Server))?Event|Register(?:Net|Server)Event
JsEventFunctions ==
    {"on", "onNet", "emit", "emitNet", "addEventListener", "addNetEventListener",
     "AddEventHandler", "TriggerEvent", "TriggerClientEvent", "TriggerServerEvent",
     "TriggerLatentClientEvent", "TriggerLatentServerEvent",
     "RegisterNetEvent", "RegisterServerEvent"}

\* The call-sites the patterns can match: a function of LUA_EVENTS in a .lua
\* file or of JS_EVENTS in a .js file, with an event name that is ignored
\* ("chat:x") or not ("foo").
PatternCalls ==
    {[func |-> f, event |-> e, path |-> "a.lua", line |-> l, script_type |-> "client"] :
        f \in LuaEventFunctions, e \in {"foo", "chat:x"}, l \in LineNumbers}
    \cup
    {[func |-> f, event |-> e, path |-> "b.js", line |-> l, script_type |-> "server"] :
        f \in JsEventFunctions, e \in {"foo", "chat:x"}, l \in LineNumbers}

\* A call of process_match with a call-site a pattern matched.
MatchPatternCall ==
    /\ epc = "process"
    /\ nmatches < MaxPatternCalls
    /\ \E call \in PatternCalls : BecomesEventState(process_match(EventState, call))
    /\ UNCHANGED <<ignored_events, triggers, report, manifestsLeft, files, error,
                   taken, epc>>
    /\ UNCHANGED <<depVars, cfgVars, execVars, stripVars, treeVars, declVars, togVars>>

NextPattern == MatchPatternCall

InitPattern == StartEvents /\ IdleConfig /\ IdleDeps /\ IdleExec /\ IdleStrip /\ IdleTree /\ IdleDecl /\ IdleToggle

SpecPattern == InitPattern /\ [][NextPattern]_vars

\* The number of the three role tests the function name passes.
RolesOf(func) ==
    (IF is_event_handler(func) THEN 1 ELSE 0)
    + (IF is_event_emitter(func) THEN 1 ELSE 0)
    + (IF is_net_event_register(func) THEN 1 ELSE 0)

\* The number of the three indexes the step changes.
IndexesChanged ==
    (IF handlers' # handlers THEN 1 ELSE 0)
    + (IF emitters' # emitters THEN 1 ELSE 0)
    + (IF registers' # registers THEN 1 ELSE 0)

\* C20: every function name LUA_EVENTS or JS_EVENTS can match passes exactly
\* one of the three role tests, and a process_match call that records a new
\* call-site (one that is not ignored) changes exactly one of handlers,
\* emitters and registers; an ignored one changes none.
C20_ExactlyOneRole ==
    /\ [](\A f \in LuaEventFunctions \cup JsEventFunctions : RolesOf(f) = 1)
    /\ [][(sightings' # sightings => IndexesChanged = 1)
           /\ (skipped' # skipped => IndexesChanged = 0)]_vars

\* C20's case: onNet('foo') and TriggerLatentServerEvent('foo') of a .js
\* file were recorded, one as a handler and one as an emitter, no register.
C20_Witness ==
    /\ nmatches = 2
    /\ Len(handlers) = 1 /\ handlers[1].func = "onNet"
    /\ Len(emitters) = 1 /\ emitters[1].func = "TriggerLatentServerEvent"
    /\ registers = <<>>

\* ===========================================================================
\* eventchecker.py: CfxResource (manifest parsing) and CfxEventChecker.process
\* ===========================================================================

\* The most manifests process() finds.
MaxManifests == 2

\* The text after a declaration keyword is a sequence of tokens: the
\* characters ( ) { } ' " , and space, and words of other characters.
SQ == "'"
DQ == "\""
Quotes == {SQ, DQ}

\* str.find(ch, from): the first position >= from holding ch, 0 when none.
Find(c, ch, from) ==
    LET at == {i \in from..Len(c) : c[i] = ch}
    IN  IF at = {} THEN 0 ELSE CHOOSE i \in at : \A k \in at : i <= k

ParseOk(values) == [error |-> "", values |-> values]
ParseError(kind) == [error |-> kind, values |-> <<>>]

\* ast.literal_eval('[' + text + ']') for a text of string literals: the
\* strings in order; adjacent literals are one string; a trailing comma is
\* allowed. mode is "item" where an element may start and "after" behind a
\* string literal.
RECURSIVE EvalItems(_, _, _, _)
EvalItems(c, i, acc, mode) ==
    IF i > Len(c) THEN ParseOk(acc)
    ELSE IF c[i] = " " THEN EvalItems(c, i + 1, acc, mode)
    ELSE IF c[i] \in Quotes
         THEN LET close == Find(c, c[i], i + 1)
                  str == SubSeq(c, i + 1, close - 1)
              IN  IF close = 0 THEN ParseError("SyntaxError")
                  ELSE IF mode = "item"
                       THEN EvalItems(c, close + 1, Append(acc, str), "after")
                       ELSE EvalItems(c, close + 1,
                                [acc EXCEPT ![Len(acc)] = @ \o str], "after")
    ELSE IF c[i] = ","
         THEN IF mode = "after" THEN EvalItems(c, i + 1, acc, "item")
              ELSE ParseError("SyntaxError")
    ELSE IF mode = "item" /\ c[i] \notin {"(", ")", "{", "}"}
         THEN ParseError("ValueError")
    ELSE ParseError("SyntaxError")

literal_eval_first(c) ==
    LET e == EvalItems(c, 1, <<>>, "item")
    IN  IF e.error # "" \/ e.values = <<>> THEN e ELSE ParseOk(<<e.values[1]>>)

literal_eval_list(c) == EvalItems(c, 1, <<>>, "item")

\* ast.literal_eval(text) for a text holding one string literal. A comma
\* outside the literals (between two of them, or trailing) makes the value a
\* tuple, which line 345 cannot take.
literal_eval(c) ==
    LET e == literal_eval_list(c)
        trailing == \E i \in DOMAIN c :
                        c[i] = "," /\ \A k \in (i + 1)..Len(c) : c[k] = " "
    IN  IF e.error # "" THEN e
        ELSE IF e.values = <<>> THEN ParseError("SyntaxError")
        ELSE IF Len(e.values) > 1 \/ trailing THEN ParseError("AttributeError")
        ELSE ParseOk(<<e.values[1]>>)

\* lines 271-305: _parse_values. Positions are 1-based: contents[0] is c[1].
parse_values(c) ==
    IF c = <<>> THEN ParseError("IndexError")
    ELSE IF c[1] = "("
         THEN IF Len(c) < 2 THEN ParseError("IndexError")
              ELSE IF c[2] = "{"
                   THEN LET iend == Find(c, "}", 3)
                        IN  IF iend = 0 THEN ParseError("ValueError")
                            ELSE literal_eval_list(SubSeq(c, 3, iend - 1))
                   ELSE LET iend == Find(c, ")", 2)
                        IN  IF iend = 0 THEN literal_eval(SubSeq(c, 2, Len(c) - 1))
                            ELSE literal_eval(SubSeq(c, 2, iend - 1))
    ELSE IF c[1] \in Quotes
         THEN LET iend == Find(c, c[1], 2)
              IN  IF iend = 0 THEN ParseError("ValueError")
                  ELSE ParseOk(<<SubSeq(c, 2, iend - 1)>>)
    ELSE IF c[1] = "{"
         THEN LET iend == Find(c, "}", 2)
              IN  IF iend = 0 THEN ParseError("ValueError")
                  ELSE literal_eval_list(SubSeq(c, 2, iend - 1))
    ELSE ParseError("ValueError")

\* The files of a resource's directory, in the order glob yields them.
DiskFiles == <<"a.lua", "b.js", "c.txt">>

\* Path.suffix: the name from its last dot on (none for a leading dot).
Suffix(path) ==
    LET c == Chars(path)
        dots == {i \in 2..Len(c) : c[i] = "."}
    IN  IF dots = {} THEN <<>>
        ELSE SubSeq(c, CHOOSE i \in dots : \A k \in dots : k <= i, Len(c))

\* line 351: ('.lua', '.js')
ScriptSuffixes == { <<".", "l", "u", "a">>, <<".", "j", "s">> }

\* line 350: self.root.glob(value), for a value of one word
Glob(value) ==
    IF Len(value) = 1 /\ value[1] \in CharStrings
    THEN SelectSeq(DiskFiles, LAMBDA f : fnmatch(f, value[1]))
    ELSE <<>>

\* lines 174-177: file_suffix_filter
file_suffix_filter_all(paths, suffixes) == paths

file_suffix_filter(paths, suffixes) ==
    SelectSeq(paths, LAMBDA f : Suffix(f) \in suffixes)

\* line 345: value.startswith('@')
StartsWithAt(value) ==
    /\ value # <<>>
    /\ value[1] \in CharStrings
    /\ Chars(value[1])[1] = "@"

\* lines 323-341: the declared values of every keyword match, or the
\* exception of the first value that cannot be parsed.
RECURSIVE TempFiles(_, _, _)
TempFiles(decls, i, acc) ==
    IF i > Len(decls) THEN [error |-> "", temp |-> acc]
    ELSE LET got == parse_values(decls[i].rest)
         IN  IF got.error # "" THEN [error |-> got.error, temp |-> <<>>]
             ELSE TempFiles(decls, i + 1,
                     acc \o [k \in DOMAIN got.values |->
                               [value |-> got.values[k],
                                script_type |-> decls[i].script_type]])

\* lines 343-354: the script files of the declared values.
RECURSIVE Expand(_, _)
Expand(temp, i) ==
    IF i > Len(temp) THEN <<>>
    ELSE LET expanded == file_suffix_filter(Glob(temp[i].value), ScriptSuffixes)
             here == IF StartsWithAt(temp[i].value) THEN <<>>
                     ELSE [k \in DOMAIN expanded |->
                             [path |-> expanded[k], script_type |-> temp[i].script_type]]
         IN  here \o Expand(temp, i + 1)

\* lines 307-356: parse_manifest. An unreadable manifest gives no files
\* (lines 310-314); a value that cannot be parsed raises.
parse_manifest(resource, readable) ==
    IF ~readable THEN [error |-> "", files |-> <<>>]
    ELSE LET t == TempFiles(resource.decls, 1, <<>>)
         IN  IF t.error # "" THEN [error |-> t.error, files |-> <<>>]
             ELSE [error |-> "", files |-> Expand(t.temp, 1)]

\* A declaration: the role of its keyword and the text after the keyword.
Decl(script_type, rest) == [script_type |-> script_type, rest |-> rest]

\* A discovered manifest: its directory relative to the scanned path and its
\* declarations.
Manifest(rel_path, decls) == [rel_path |-> rel_path, decls |-> decls]

\* The manifests the scanned tree may hold.
Manifests == {
    \* foo/fxmanifest.lua:  client_script 'a.lua'   server_scripts { 'b.js', 'c.txt' }
    Manifest(<<"foo">>,
        << Decl("client", <<SQ, "a.lua", SQ>>),
           Decl("server", <<"{", " ", SQ, "b.js", SQ, ",", " ", SQ, "c.txt", SQ, " ", "}">>) >>),
    \* [cat]/bar/fxmanifest.lua:  shared_script('a.lua')  client_scripts({"*.lua", '@es/x.lua'})
    Manifest(<<"[cat]", "bar">>,
        << Decl("shared", <<"(", SQ, "a.lua", SQ, ")">>),
           Decl("client", <<"(", "{", DQ, "*.lua", DQ, ",", " ", SQ, "@es/x.lua", SQ, "}", ")">>) >>),
    \* bad/__resource.lua:  client_script 'a.lua'   server_script main.lua
    Manifest(<<"bad">>,
        << Decl("client", <<SQ, "a.lua", SQ>>),
           Decl("server", <<"main.lua">>) >>),
    \* [cat]/fxmanifest.lua, a manifest in a category folder
    Manifest(<<"[cat]">>, << Decl("client", <<SQ, "a.lua", SQ>>) >>),
    \* ign/fxmanifest.lua, in the directory that is an ignored path
    Manifest(<<"ign">>, << Decl("client", <<SQ, "a.lua", SQ>>) >>),
    \* ign/baz/fxmanifest.lua, below an ignored path
    Manifest(<<"ign", "baz">>, << Decl("client", <<SQ, "a.lua", SQ>>) >>),
    \* qux/fxmanifest.lua, an ignored resource
    Manifest(<<"qux">>, << Decl("client", <<SQ, "a.lua", SQ>>) >>) }

\* lines 23-28 and the --ignore-path / --ignore-resource arguments of the run
IGNORED_PATHS == <<>>
IGNORED_RESOURCES == <<>>
IgnorePathsArg == << <<"ign">> >>
IgnoreResourcesArg == <<"qux">>

\* lines 467-471
ignored_resources == Dedupe(IGNORED_RESOURCES \o IgnoreResourcesArg)
ignored_paths == Dedupe(IGNORED_PATHS \o IgnorePathsArg)

\* The resources the startup config enables, when one is given.
EnabledByConfig == <<"foo", "bad", "baz", "qux", "[cat]">>

\* Path.parents: the proper ancestors of a relative path, '.' included.
Parents(rel_path) == {SubSeq(rel_path, 1, k) : k \in 0..(Len(rel_path) - 1)}

\* lines 179-180: is_ignored_path
is_ignored_path(rel_path, paths) ==
    \E i \in DOMAIN paths : paths[i] \in Parents(rel_path)

\* line 268: self.name = self.root.name
NameOf(resource) == Last(resource.rel_path)

\* lines 140-142 and 500: re.fullmatch(CATEGORY_FOLDER, name)
IsCategoryFolder(name) ==
    LET c == Chars(name)
    IN  /\ Len(c) >= 3
        /\ c[1] = "["
        /\ c[Len(c)] = "]"
        /\ \A i \in 2..(Len(c) - 1) : c[i] # "]"

\* lines 381-382: is_resource_enabled
is_resource_enabled(name) == name \in Range(resources)

\* lines 485-502: the four checks that skip a manifest
SkipsManifestWithoutConfig(resource) ==
    \/ is_ignored_path(resource.rel_path, ignored_paths)
    \/ ~is_resource_enabled(NameOf(resource))
    \/ NameOf(resource) \in Range(ignored_resources)
    \/ IsCategoryFolder(NameOf(resource))

SkipsManifest(resource) ==
    \/ is_ignored_path(resource.rel_path, ignored_paths)
    \/ (cfgAvailable /\ ~is_resource_enabled(NameOf(resource)))
    \/ NameOf(resource) \in Range(ignored_resources)
    \/ IsCategoryFolder(NameOf(resource))

\* The matches process_file may find in a script, in the order of the text.
ScriptMatch(func, event, line) == [func |-> func, event |-> event, line |-> line]

ScriptScans == {
    <<>>,
    << ScriptMatch("AddEventHandler", "foo", 1) >>,
    << ScriptMatch("TriggerEvent", "foo", 1), ScriptMatch("TriggerEvent", "foo", 2) >>,
    << ScriptMatch("RegisterNetEvent", "esx:a", 1), ScriptMatch("TriggerEvent", "chat:x", 2) >> }

\* The process_match calls of a scan of the file (path, script_type).
CallsOf(scan, file) ==
    [k \in DOMAIN scan |->
        [func |-> scan[k].func, event |-> scan[k].event, path |-> file.path,
         line |-> scan[k].line, script_type |-> file.script_type]]

\* The config the checker was constructed with (line 464): none, or one that
\* enables EnabledByConfig.
LoadedConfig ==
    /\ cfgAvailable \in BOOLEAN
    /\ resources = IF cfgAvailable THEN EnabledByConfig ELSE <<>>
    /\ started = resources
    /\ seen_paths = IF cfgAvailable THEN {RootConfig} ELSE {}
    /\ cfgStack = <<>>
    /\ cfgLog = <<>>
    /\ cpc = "done"

\* lines 459-477: the checker is constructed and process() has listed the
\* manifests.
StartProcess ==
    /\ \E ignore_events \in IgnoreEventsArgs :
         ignored_events = Dedupe(IGNORED_EVENTS \o ignore_events)
    /\ handlers = <<>>
    /\ emitters = <<>>
    /\ registers = <<>>
    /\ sightings = {}
    /\ skipped = {}
    /\ nmatches = 0
    /\ triggers = FALSE
    /\ report = <<>>
    /\ manifestsLeft \in 0..MaxManifests
    /\ files = <<>>
    /\ error = ""
    /\ taken = NoManifest
    /\ epc = "process"

\* The manifest an iteration took, whether it could be read, and the outcome:
\* "skipped" by one of the four checks, "parsed" (parse_manifest returned its
\* files) or "raised" (parse_manifest raised).
TakenManifest(resource, readable, outcome) ==
    [rel_path |-> resource.rel_path, readable |-> readable, outcome |-> outcome]

\* lines 479-504: one iteration of the loop over the manifests, up to the
\* call of parse_manifest. An exception of parse_manifest is not caught by
\* process() nor by main(): it ends the run.
ProcessManifest ==
    /\ epc = "process"
    /\ files = <<>>
    /\ manifestsLeft > 0
    /\ manifestsLeft' = manifestsLeft - 1
    /\ \E resource \in Manifests, readable \in BOOLEAN :
         IF SkipsManifest(resource)
         THEN /\ taken' = TakenManifest(resource, readable, "skipped")
              /\ UNCHANGED <<files, error, epc>>
         ELSE LET parsed == parse_manifest(resource, readable)
              IN  IF parsed.error # ""
                  THEN /\ error' = parsed.error
                       /\ epc' = "crashed"
                       /\ taken' = TakenManifest(resource, readable, "raised")
                       /\ UNCHANGED files
                  ELSE /\ files' = parsed.files
                       /\ taken' = TakenManifest(resource, readable, "parsed")
                       /\ UNCHANGED <<error, epc>>
    /\ UNCHANGED <<ignored_events, handlers, emitters, registers, sightings,
                   skipped, nmatches, triggers, report>>
    /\ UNCHANGED <<depVars, cfgVars, execVars, stripVars, treeVars, declVars, togVars>>

\* lines 504-540: process_file for the next file of the resource. A file that
\* cannot be read is skipped (lines 510-514); a suffix other than .lua and .js
\* raises (line 532).
ProcessFile ==
    /\ epc = "process"
    /\ files # <<>>
    /\ files' = Tail(files)
    /\ \E readable \in BOOLEAN, scan \in ScriptScans :
         IF ~readable
         THEN UNCHANGED <<handlers, emitters, registers, sightings, skipped,
                          nmatches, error, epc>>
         ELSE IF Suffix(Head(files).path) \notin ScriptSuffixes
         THEN /\ error' = "UnsupportedFileType"
              /\ epc' = "crashed"
              /\ UNCHANGED <<handlers, emitters, registers, sightings, skipped, nmatches>>
         ELSE /\ BecomesEventState(process_matches(EventState, CallsOf(scan, Head(files))))
              /\ UNCHANGED <<error, epc>>
    /\ UNCHANGED <<ignored_events, triggers, report, manifestsLeft, taken>>
    /\ UNCHANGED <<depVars, cfgVars, execVars, stripVars, treeVars, declVars, togVars>>

Next == ProcessManifest \/ ProcessFile \/ Results

Init == StartProcess /\ LoadedConfig /\ IdleDeps /\ IdleExec /\ IdleStrip /\ IdleTree /\ IdleDecl /\ IdleToggle

Spec == Init /\ [][Next]_vars

\* ---------------------------------------------------------------------------
\* CfxResource.parse_manifest on one script declaration
\* ---------------------------------------------------------------------------

\* The most values of one declaration.
MaxValues == 3

\* The values a declaration may name.
DeclaredNames == {"a.lua", "b.js", "*.lua"}

\* The forms of a declaration, after the keyword:
\*   bare       'a'            paren      ('a')
\*   brace      { 'a', 'b' }   parenlist  ({ 'a', 'b' })
DeclForms == {"bare", "paren", "brace", "parenlist"}

\* The text of a string literal and of a comma-separated list of them.
Literal(name, quote) == <<quote, name, quote>>

RECURSIVE LiteralList(_, _, _)
LiteralList(names, quote, blank) ==
    IF names = <<>> THEN <<>>
    ELSE IF Len(names) = 1 THEN Literal(names[1], quote)
    ELSE Literal(names[1], quote) \o <<",">> \o blank
            \o LiteralList(Tail(names), quote, blank)

\* The text after the keyword of the declaration.
DeclText(dc) ==
    LET blank == IF dc.spaced THEN <<" ">> ELSE <<>>
        list == LiteralList(dc.names, dc.quote, blank)
    IN  IF dc.form = "bare" THEN list
        ELSE IF dc.form = "paren" THEN <<"(">> \o list \o <<")">>
        ELSE IF dc.form = "brace" THEN <<"{">> \o blank \o list \o blank \o <<"}">>
        ELSE <<"(", "{">> \o blank \o list \o blank \o <<"}", ")">>

\* The declarations: a role keyword and up to MaxValues string literals, in
\* one of the forms; the forms without a list hold one literal.
Declarations ==
    {dc \in [script_type : {"client", "server", "shared"},
             names : UNION {[1..n -> DeclaredNames] : n \in 0..MaxValues},
             form : DeclForms, quote : Quotes, spaced : BOOLEAN] :
        dc.form \in {"bare", "paren"} => Len(dc.names) = 1}

\* lines 307-322: a manifest with one declaration was read.
ReadDeclaration ==
    /\ decl \in Declarations
    /\ temp_files = <<>>
    /\ mpc = "read"

\* lines 323-341: the loop over the keyword matches, for the one declaration
ParseDeclaration ==
    /\ mpc = "read"
    /\ LET t == TempFiles(<<Decl(decl.script_type, DeclText(decl))>>, 1, <<>>)
       IN  IF t.error # ""
           THEN /\ mpc' = t.error
                /\ UNCHANGED temp_files
           ELSE /\ mpc' = "parsed"
                /\ temp_files' = t.temp
    /\ UNCHANGED decl
    /\ UNCHANGED <<depVars, cfgVars, evVars, execVars, stripVars, treeVars, togVars>>

NextDecl == ParseDeclaration

InitDecl == ReadDeclaration /\ IdleDeps /\ IdleConfig /\ IdleEvents /\ IdleExec /\ IdleStrip /\ IdleTree /\ IdleToggle

SpecDecl == InitDecl /\ [][NextDecl]_vars

\* ---- properties of the declaration parsing ----

\* C19: a declaration of n string literals gives n entries, the values in
\* the order declared, each with the role of the keyword, and so the same
\* entries in every form the values are written in.
C19_DeclarationEntries ==
    mpc # "read" =>
        /\ mpc = "parsed"
        /\ temp_files = [k \in DOMAIN decl.names |->
                            [value |-> <<decl.names[k]>>, script_type |-> decl.script_type]]

\* C19's case: server_scripts { 'a.lua', 'b.js' } was parsed into two entries.
C19_Witness ==
    /\ mpc = "parsed"
    /\ decl.form = "brace"
    /\ decl.script_type = "server"
    /\ decl.names = <<"a.lua", "b.js">>
    /\ Len(temp_files) = 2
    /\ temp_files[2].script_type = "server"

\* ---- properties of process_match and results ----

\* The event names that head a block of the report.
ReportedNames == {report[i].header : i \in DOMAIN report}

\* The (path, line) pairs of the locations of a record.
LocationsOf(rec) ==
    {<<rec.locations[i].path, rec.locations[i].line>> : i \in DOMAIN rec.locations}

\* The index that holds the records of a role.
IndexOfRole(role) ==
    IF role = "handler" THEN handlers
    ELSE IF role = "emitter" THEN emitters
    ELSE registers

\* C1: in both directions the report has a block for an event name exactly
\* when the name is a key of `check` and not a key of `compare`; a name that is
\* a key of both handlers and emitters is in no report.
C1_ReportIsCheckMinusCompare ==
    epc = "done" =>
        /\ ReportedNames = IF triggers THEN Keys(emitters) \ Keys(handlers)
                           ELSE Keys(handlers) \ Keys(emitters)
        /\ ReportedNames \cap (Keys(handlers) \cap Keys(emitters)) = {}

\* C1's case: results has run in the triggers direction with a name that is
\* both handled and emitted and another name that is only emitted.
C1_Witness ==
    /\ epc = "done"
    /\ triggers
    /\ Keys(handlers) \cap Keys(emitters) # {}
    /\ ReportedNames # {}

\* C2: every call-site process_match recorded stays in its record: when one
\* event name with one role occurs at several lines of one file, all those
\* (path, line) locations are in the record's locations.
C2_AllCallSitesKept ==
    \A site \in sightings :
        /\ site.event \in Keys(IndexOfRole(site.role))
        /\ <<site.path, site.line>> \in
               LocationsOf(RecordOf(IndexOfRole(site.role), site.event))

\* C3: a manifest with a declared value of an unrecognized form aborts the
\* processing of that manifest only: its ValueError does not end the run, so
\* process() goes on with the remaining manifests and results() is reached.
C3_MalformedManifestSkipped ==
    ~(epc = "crashed" /\ error = "ValueError")

\* ---- properties of process ----

\* A check other than the enablement check skips the manifest.
SkippedForOtherReason(resource) ==
    \/ is_ignored_path(resource.rel_path, ignored_paths)
    \/ NameOf(resource) \in Range(ignored_resources)
    \/ IsCategoryFolder(NameOf(resource))

\* C12: without an available config the enabled-resource list is empty and
\* yet no manifest is skipped by the enablement check: a manifest that process
\* skipped is one that another check skips.
C12_NoConfigNoFiltering ==
    ~cfgAvailable =>
        /\ resources = <<>>
        /\ taken.outcome = "skipped" => SkippedForOtherReason(taken)

\* C12's case: no config is available, the enabled list is empty, and the
\* manifest of foo was taken and parsed.
C12_Witness ==
    /\ ~cfgAvailable
    /\ resources = <<>>
    /\ taken.rel_path = <<"foo">>
    /\ taken.outcome = "parsed"
    /\ files # <<>>

\* The relative path q is the path p or lies below it.
AtOrBelow(q, p) == Len(p) <= Len(q) /\ SubSeq(q, 1, Len(p)) = p

\* C17: a manifest whose directory is an ignored path, or lies below one, is
\* skipped by process and no file of it is handed to process_file.
C17_IgnoredPathSkipped ==
    (/\ taken.outcome # "none"
     /\ \E i \in DOMAIN ignored_paths : AtOrBelow(taken.rel_path, ignored_paths[i]))
        => (taken.outcome = "skipped" /\ files = <<>>)

\* The four skip conditions for a manifest, each on its own.
OnIgnoredPath(resource) ==
    \E i \in DOMAIN ignored_paths : AtOrBelow(resource.rel_path, ignored_paths[i])
IsIgnoredResource(resource) == NameOf(resource) \in Range(ignored_resources)
IsDisabled(resource) == cfgAvailable /\ NameOf(resource) \notin Range(resources)
InCategoryFolder(resource) == IsCategoryFolder(NameOf(resource))

\* C18: a manifest that process took gets past the checks, to parse_manifest
\* and the scan of its scripts, exactly when none of the four skip conditions
\* holds, in whatever order the conditions are looked at.
C18_ScannedIffNoSkipCondition ==
    taken.outcome # "none" =>
        /\ taken.outcome = "skipped" <=>
                \/ InCategoryFolder(taken) \/ IsDisabled(taken)
                \/ IsIgnoredResource(taken) \/ OnIgnoredPath(taken)
        /\ taken.outcome = "skipped" <=>
                \/ OnIgnoredPath(taken) \/ IsIgnoredResource(taken)
                \/ IsDisabled(taken) \/ InCategoryFolder(taken)

\* C4: a name that matches a pattern of the ignored-events list is never a
\* key of handlers, emitters or registers, and so never heads a report block.
C4_IgnoredNeverIndexed ==
    \A e \in Keys(handlers) \cup Keys(emitters) \cup Keys(registers) \cup ReportedNames :
        \A i \in 1..Len(ignored_events) : ~fnmatch(e, ignored_events[i])

\* C4's case: onClientResourceStart (a default pattern) and esx:a (a given
\* pattern) were passed to process_match, another event was recorded, and
\* results has reported the emitters without handlers.
C4_Witness ==
    /\ epc = "done"
    /\ triggers
    /\ {"onClientResourceStart", "esx:a"} \subseteq skipped
    /\ Keys(emitters) # {}

\* C25: the 'Unsupported file type' error of process_file is unreachable from
\* process: every path process has still to pass to process_file has the
\* suffix .lua or .js, and no run is ended by that error.
C25_UnsupportedTypeUnreachable ==
    /\ error # "UnsupportedFileType"
    /\ \A i \in DOMAIN files : Suffix(files[i].path) \in ScriptSuffixes

\* foo's manifest declares 'c.txt', which is on the disk: the files of the
\* resource are a.lua and b.js.
C25_Witness ==
    /\ taken.rel_path = <<"foo">>
    /\ taken.outcome = "parsed"
    /\ files = << [path |-> "a.lua", script_type |-> "client"],
                  [path |-> "b.js", script_type |-> "server"] >>

\* ===========================================================================
\* eventchecker.py: CfxEventChecker.process_file, the comment stripping and
\* the scan for call-sites
\* ===========================================================================

\* The most pieces a script text is put together from.
MaxPieces == 5

\* A text is a sequence of characters. "E" stands for the characters of one
\* event call, TriggerEvent('foo') in Lua and emit('foo') in JS: it holds no
\* line break and none of the characters of a comment delimiter. NL is the
\* line break (read_text gives "\n" for every line ending).
NL == "\n"

LuaPieces == { <<"-", "-", "[", "[">>, <<"]", "]">>, <<"-", "-">>, <<NL>>, <<" ">>, <<"E">> }
JsPieces == { <<"/", "*">>, <<"*", "/">>, <<"/", "/">>, <<NL>>, <<" ">>, <<"E">> }

RECURSIVE Concat(_)
Concat(pieces) ==
    IF pieces = <<>> THEN <<>> ELSE Head(pieces) \o Concat(Tail(pieces))

\* The texts of up to MaxPieces pieces.
Texts(pieces) == {Concat(ps) : ps \in UNION {[1..n -> pieces] : n \in 0..MaxPieces}}

\* The text holds the characters `word` from position i on.
At(t, i, word) ==
    /\ i >= 1
    /\ i + Len(word) - 1 <= Len(t)
    /\ \A k \in DOMAIN word : t[i + k - 1] = word[k]

\* The least position >= from where `word` starts, 0 when there is none.
FindWord(t, word, from) ==
    LET at == {k \in from..Len(t) : At(t, k, word)}
    IN  IF at = {} THEN 0 ELSE CHOOSE k \in at : \A m \in at : k <= m

\* re.MULTILINE: `^` matches at position i, `$` matches before position i.
LineStart(t, i) == i = 1 \/ t[i - 1] = NL
LineEnd(t, i) == i = Len(t) + 1 \/ (i <= Len(t) /\ t[i] = NL)

\* The least position >= from where `$` matches.
FindLineEnd(t, from) == CHOOSE k \in from..(Len(t) + 1) :
                            LineEnd(t, k) /\ \A m \in from..(k - 1) : ~LineEnd(t, m)

\* lines 144-147: LUA_BLOCK_COMMENT, --\[\[.*?\]\](?:--)? with re.DOTALL.
\* The position behind the match that starts at i, 0 when none starts there.
LuaBlockEnd(t, i) ==
    IF ~At(t, i, <<"-", "-", "[", "[">>) THEN 0
    ELSE LET close == FindWord(t, <<"]", "]">>, i + 4)
         IN  IF close = 0 THEN 0
             ELSE IF At(t, close + 2, <<"-", "-">>) THEN close + 4
             ELSE close + 2

\* lines 149-152: LUA_SINGLE_COMMENT, --(?!\[\[).+$\r?\n with re.MULTILINE:
\* `.+` takes the rest of the line, at least one character, and the line
\* break has to follow.
LuaSingleEnd(t, i) ==
    IF ~At(t, i, <<"-", "-">>) \/ At(t, i + 2, <<"[", "[">>) THEN 0
    ELSE LET nl == FindWord(t, <<NL>>, i + 2)
         IN  IF nl = 0 \/ nl = i + 2 THEN 0 ELSE nl + 1

\* lines 154-157: JS_COMMENTS, (?:(?:^|\s)\/\/(.+?)$)|(?:\/\*(.*?)\*\/) with
\* re.MULTILINE | re.DOTALL: `.+?` takes at least one character, a line break
\* too, up to the first place behind it where `$` matches.
JsLineEnd(t, from) ==
    IF from > Len(t) THEN 0 ELSE FindLineEnd(t, from + 1)

JsEnd(t, i) ==
    IF LineStart(t, i) /\ At(t, i, <<"/", "/">>) THEN JsLineEnd(t, i + 2)
    ELSE IF i <= Len(t) /\ t[i] \in {" ", NL} /\ At(t, i + 1, <<"/", "/">>)
         THEN JsLineEnd(t, i + 3)
    ELSE IF At(t, i, <<"/", "*">>)
         THEN LET close == FindWord(t, <<"*", "/">>, i + 2)
              IN  IF close = 0 THEN 0 ELSE close + 2
    ELSE 0

MatchEnd(pattern, t, i) ==
    IF pattern = "LUA_BLOCK_COMMENT" THEN LuaBlockEnd(t, i)
    ELSE IF pattern = "LUA_SINGLE_COMMENT" THEN LuaSingleEnd(t, i)
    ELSE JsEnd(t, i)

\* lines 569-571: comment_replace, '\n' * match.group(0).count('\n')
comment_replace_empty(matched) == <<>>

comment_replace(matched) == SelectSeq(matched, LAMBDA c : c = NL)

\* re.sub(pattern, self.comment_replace, contents): the matches are taken
\* from the left, each from behind the one before it.
RECURSIVE SubFrom(_, _, _)
SubFrom(pattern, t, i) ==
    IF i > Len(t) THEN <<>>
    ELSE LET e == MatchEnd(pattern, t, i)
         IN  IF e = 0 THEN <<t[i]>> \o SubFrom(pattern, t, i + 1)
             ELSE comment_replace(SubSeq(t, i, e - 1)) \o SubFrom(pattern, t, e)

Sub(pattern, t) == SubFrom(pattern, t, 1)

\* lines 99-133: LUA_EVENTS and JS_EVENTS begin with (?:^|[ \t]+): a call is
\* matched at a line start or behind a blank. Two calls are never matched at
\* the same place, so finditer gives every one of them.
EventMatches(t) ==
    {i \in DOMAIN t : t[i] = "E" /\ (LineStart(t, i) \/ t[i - 1] = " ")}

\* match.start() of the call at position i, counted from 0: the match
\* begins with the blanks before the call ([ \t]+ takes the whole run).
MatchStart(t, i) ==
    LET run == {k \in 1..(i - 1) : \A j \in k..(i - 1) : t[j] = " "}
    IN  IF run = {} THEN i - 1
        ELSE (CHOOSE k \in run : \A m \in run : k <= m) - 1

\* lines 159-161 and 534: the end of every match of LINE_MAP_REGEX, `.*(\n|$)`:
\* one behind every newline, the end of the text for a last line without
\* newline, and the end of the text again for the empty match there.
line_map(t) ==
    LET nls == {k \in DOMAIN t : t[k] = NL}
        nth(n) == CHOOSE k \in nls : Cardinality({j \in nls : j <= k}) = n
        ends == [n \in 1..Cardinality(nls) |-> nth(n)]
    IN  ends \o (IF t # <<>> /\ t[Len(t)] # NL THEN <<Len(t), Len(t)>> ELSE <<Len(t)>>)

\* lines 535-538 with `pos >= match.start()`
line_no_at_or_behind(map, start) ==
    LET hits == {n \in DOMAIN map : map[n] >= start}
    IN  IF hits = {} THEN Len(map) ELSE CHOOSE n \in hits : \A m \in hits : n <= m

\* lines 535-538: the number of the first end behind match.start(); the
\* loop variable keeps its last value when there is none.
line_no(map, start) ==
    LET hits == {n \in DOMAIN map : map[n] > start}
    IN  IF hits = {} THEN Len(map) ELSE CHOOSE n \in hits : \A m \in hits : n <= m

LineNo(t, i) == line_no(line_map(t), MatchStart(t, i))

\* The line of the text the position i is in.
LineOf(t, i) == 1 + Cardinality({k \in 1..(i - 1) : t[k] = NL})

\* The function name of the call "E" in a file of the suffix.
FuncOfSuffix(sfx) == IF sfx = ".lua" THEN "TriggerEvent" ELSE "emit"
PathOfSuffix(sfx) == IF sfx = ".lua" THEN "a.lua" ELSE "b.js"

\* lines 535-540: the process_match calls of the matches, in text order.
RECURSIVE ScanCalls(_, _, _)
ScanCalls(t, i, sfx) ==
    IF i > Len(t) THEN <<>>
    ELSE (IF i \in EventMatches(t)
          THEN << [func |-> FuncOfSuffix(sfx), event |-> "foo",
                   path |-> PathOfSuffix(sfx), line |-> LineNo(t, i),
                   script_type |-> "client"] >>
          ELSE <<>>) \o ScanCalls(t, i + 1, sfx)

\* lines 459-471 and 509-516: a checker with the default ignored events, and
\* a script file that was read.
ReadScript ==
    /\ ignored_events = Dedupe(IGNORED_EVENTS)
    /\ handlers = <<>>
    /\ emitters = <<>>
    /\ registers = <<>>
    /\ sightings = {}
    /\ skipped = {}
    /\ nmatches = 0
    /\ triggers = FALSE
    /\ report = <<>>
    /\ manifestsLeft = 0
    /\ files = <<>>
    /\ error = ""
    /\ taken = NoManifest
    /\ epc = "process"
    /\ suffix \in {".lua", ".js"}
    /\ original \in IF suffix = ".lua" THEN Texts(LuaPieces) ELSE Texts(JsPieces)
    /\ contents = original
    /\ spc = "read"

\* lines 518-522: .lua, remove all block comments
StripLuaBlock ==
    /\ spc = "read"
    /\ suffix = ".lua"
    /\ contents' = Sub("LUA_BLOCK_COMMENT", contents)
    /\ spc' = "block"
    /\ UNCHANGED <<original, suffix>>
    /\ UNCHANGED <<depVars, cfgVars, evVars, execVars, treeVars, declVars, togVars>>

\* line 524: .lua, remove single line comments
StripLuaSingle ==
    /\ spc = "block"
    /\ contents' = Sub("LUA_SINGLE_COMMENT", contents)
    /\ spc' = "stripped"
    /\ UNCHANGED <<original, suffix>>
    /\ UNCHANGED <<depVars, cfgVars, evVars, execVars, treeVars, declVars, togVars>>

\* lines 526-530: .js, remove all comments
StripJs ==
    /\ spc = "read"
    /\ suffix = ".js"
    /\ contents' = Sub("JS_COMMENTS", contents)
    /\ spc' = "stripped"
    /\ UNCHANGED <<original, suffix>>
    /\ UNCHANGED <<depVars, cfgVars, evVars, execVars, treeVars, declVars, togVars>>

\* lines 534-540: process_match for every match of the stripped text
ScanMatches ==
    /\ spc = "stripped"
    /\ BecomesEventState(process_matches(EventState, ScanCalls(contents, 1, suffix)))
    /\ spc' = "scanned"
    /\ UNCHANGED <<original, contents, suffix>>
    /\ UNCHANGED <<ignored_events, triggers, report, manifestsLeft, files, error,
                   taken, epc>>
    /\ UNCHANGED <<depVars, cfgVars, execVars, treeVars, declVars, togVars>>

NextStrip == StripLuaBlock \/ StripLuaSingle \/ StripJs \/ ScanMatches

InitStrip == ReadScript /\ IdleDeps /\ IdleConfig /\ IdleExec /\ IdleTree /\ IdleDecl /\ IdleToggle

SpecStrip == InitStrip /\ [][NextStrip]_vars

\* ---- properties of the comment stripping ----

\* The positions of a Lua text that are inside a comment: a block comment
\* runs from --[[ to the next ]], a line comment from -- to the end of its
\* line. A block comment that is not closed runs to the end of the text, and
\* the set then holds 0 as well: such a text is not a script.
RECURSIVE LuaComments(_, _)
LuaComments(t, i) ==
    IF i > Len(t) THEN {}
    ELSE IF At(t, i, <<"-", "-", "[", "[">>)
         THEN LET close == FindWord(t, <<"]", "]">>, i + 4)
                  e == IF close = 0 THEN Len(t) + 1 ELSE close + 2
              IN  (i..(e - 1)) \cup LuaComments(t, e)
                      \cup (IF close = 0 THEN {0} ELSE {})
    ELSE IF At(t, i, <<"-", "-">>)
         THEN LET e == FindLineEnd(t, i + 2)
              IN  (i..(e - 1)) \cup LuaComments(t, e)
    ELSE LuaComments(t, i + 1)

\* The same for a JS text: /* to the next */, and // to the end of its line.
RECURSIVE JsComments(_, _)
JsComments(t, i) ==
    IF i > Len(t) THEN {}
    ELSE IF At(t, i, <<"/", "*">>)
         THEN LET close == FindWord(t, <<"*", "/">>, i + 2)
                  e == IF close = 0 THEN Len(t) + 1 ELSE close + 2
              IN  (i..(e - 1)) \cup JsComments(t, e)
                      \cup (IF close = 0 THEN {0} ELSE {})
    ELSE IF At(t, i, <<"/", "/">>)
         THEN LET e == FindLineEnd(t, i + 2)
              IN  (i..(e - 1)) \cup JsComments(t, e)
    ELSE JsComments(t, i + 1)

InComment(t, sfx) == IF sfx = ".lua" THEN LuaComments(t, 1) ELSE JsComments(t, 1)

\* Every block comment of the text is closed.
CommentsClosed(t, sfx) == 0 \notin InComment(t, sfx)

\* The lines of the text that hold a call outside every comment, and the
\* lines that hold a call at all.
LinesOfCodeCalls(t, sfx) ==
    {LineOf(t, i) : i \in {k \in DOMAIN t : t[k] = "E" /\ k \notin InComment(t, sfx)}}

LinesOfCalls(t) == {LineOf(t, i) : i \in {k \in DOMAIN t : t[k] = "E"}}

CountNL(t) == Cardinality({k \in DOMAIN t : t[k] = NL})

Stripped == spc \in {"stripped", "scanned"}

\* C13: a call inside a comment is not recorded: for a script whose block
\* comments are closed, every call-site that process_file recorded is in a
\* line of the file that holds a call outside the comments.
C13_CommentedCallsNotRecorded ==
    (spc = "scanned" /\ CommentsClosed(original, suffix)) =>
        \A s \in sightings : s.line \in LinesOfCodeCalls(original, suffix)

\* C14: after each stripping pass the text has as many line breaks as the
\* text read, and every recorded call-site has the number of a line of the
\* text read that holds a call.
C14_StrippingKeepsLines ==
    /\ spc \in {"block", "stripped", "scanned"} => CountNL(contents) = CountNL(original)
    /\ spc = "scanned" => \A s \in sightings : s.line \in LinesOfCalls(original)

\* C14's case: a Lua block comment over one line break came before a call in
\* the third line; the comment is gone, the call was recorded in line 3.
C14_Witness ==
    /\ spc = "scanned"
    /\ original = <<"-", "-", "[", "[", NL, "]", "]", NL, "E">>
    /\ contents = <<NL, NL, "E">>
    /\ \E s \in sightings : s.line = 3

\* C15: the stripped text has as many characters as the text read.
C15_StrippingKeepsLength ==
    Stripped => Len(contents) = Len(original)

\* C27: the line number recorded for every call-site is 1 plus the number of
\* newlines of the comment-stripped text that precede the match offset, for
\* every match: on the first line, on a last line without newline, behind
\* leading blanks.
C27_LineIsNewlinesBeforeMatch ==
    spc = "scanned" =>
        {s.line : s \in sightings} =
            {1 + CountNL(SubSeq(contents, 1, MatchStart(contents, i))) :
                i \in EventMatches(contents)}

\* A call on the first line and a call behind a blank on the last line,
\* which has no newline.
C27_Witness ==
    /\ spc = "scanned"
    /\ contents = <<"E", NL, " ", "E">>
    /\ {s.line : s \in sightings} = {1, 2}

\* ===========================================================================
\* prototype-deptree.py: CfxResource.parse_manifest and
\* CfxDependencyTree.process
\* ===========================================================================

\* The most manifests process() finds.
MaxTreeManifests == 3

\* The string of a sequence of characters.
StringOf(chars) == CHOOSE s \in CharStrings : CharTable[s] = chars

\* The characters of a declared value (a sequence of words).
ValueChars(value) == Concat([k \in DOMAIN value |-> Chars(value[k])])

\* line 289: value[1:].split('/', 1)[0], the resource of a value '@res/file'
DependencyOf(value) ==
    LET c == ValueChars(value)
        slash == Find(c, "/", 2)
    IN  StringOf(SubSeq(c, 2, IF slash = 0 THEN Len(c) ELSE slash - 1))

\* lines 243-252: add_deps. `deps` holds at most the key self.name: it is
\* the record of whether the key is there and of its list. The `elif values`
\* is true for a generator and for the one-element list of line 289.
NoDeps == [present |-> FALSE, values |-> <<>>]

RECURSIVE AppendNew(_, _)
AppendNew(list, values) ==
    IF values = <<>> THEN list
    ELSE AppendNew(IF Head(values) \in Range(list) THEN list
                   ELSE Append(list, Head(values)), Tail(values))

\* add_deps without the `not in` test of line 249
add_deps_always(deps, values) == [present |-> TRUE, values |-> deps.values \o values]

add_deps(deps, values) == [present |-> TRUE, values |-> AppendNew(deps.values, values)]

\* lines 266-280: the values of every `dependency` / `dependencies`
\* declaration, or the exception of the first that cannot be parsed.
RECURSIVE DeclaredDeps(_, _, _)
DeclaredDeps(decls, i, deps) ==
    IF i > Len(decls) THEN [error |-> "", deps |-> deps]
    ELSE LET got == parse_values(decls[i].rest)
         IN  IF got.error # "" THEN [error |-> got.error, deps |-> NoDeps]
             ELSE DeclaredDeps(decls, i + 1,
                     add_deps(deps, [k \in DOMAIN got.values |->
                                        StringOf(ValueChars(got.values[k]))]))

\* lines 282-300: the values of every script declaration: a value '@res/file'
\* is a dependency on res, another value is a file pattern.
RECURSIVE DeclaredScripts(_, _, _, _)
DeclaredScripts(decls, i, deps, temp) ==
    IF i > Len(decls) THEN [error |-> "", deps |-> deps, temp |-> temp]
    ELSE LET got == parse_values(decls[i].rest)
             ats == SelectSeq(got.values, StartsWithAt)
             others == SelectSeq(got.values, LAMBDA v : ~StartsWithAt(v))
         IN  IF got.error # "" THEN [error |-> got.error, deps |-> NoDeps, temp |-> <<>>]
             ELSE DeclaredScripts(decls, i + 1,
                     IF ats = <<>> THEN deps
                     ELSE add_deps(deps, [k \in DOMAIN ats |-> DependencyOf(ats[k])]),
                     temp \o [k \in DOMAIN others |->
                                [value |-> others[k], script_type |-> decls[i].script_type]])

\* lines 236-311: parse_manifest. A manifest that cannot be read returns the
\* empty list (line 259), any other the pair (deps, files).
tree_parse_manifest(resource, readable) ==
    IF ~readable THEN [error |-> "", returned |-> "list", deps |-> NoDeps, files |-> <<>>]
    ELSE LET dd == DeclaredDeps(SelectSeq(resource.decls,
                        LAMBDA x : x.script_type = "dependency"), 1, NoDeps)
             ds == DeclaredScripts(SelectSeq(resource.decls,
                        LAMBDA x : x.script_type # "dependency"), 1, dd.deps, <<>>)
         IN  IF dd.error # ""
             THEN [error |-> dd.error, returned |-> "", deps |-> NoDeps, files |-> <<>>]
             ELSE IF ds.error # ""
             THEN [error |-> ds.error, returned |-> "", deps |-> NoDeps, files |-> <<>>]
             ELSE [error |-> "", returned |-> "pair", deps |-> ds.deps,
                   files |-> Expand(ds.temp, 1)]

\* line 458: `deps, files = []` raises
UnpackError == "ValueError: not enough values to unpack (expected 2, got 0)"

\* self.dependencies is the sequence of its items, in insertion order.
DepItem(name, deps) == [name |-> name, deps |-> deps]

DepKeys(items) == {items[i].name : i \in DOMAIN items}

\* line 459: self.dependencies.update(deps): the value of the key is
\* replaced, a new key goes to the end.
DictUpdate(items, name, deps) ==
    IF ~deps.present THEN items
    ELSE IF name \in DepKeys(items)
         THEN [i \in DOMAIN items |->
                 IF items[i].name = name THEN DepItem(name, deps.values) ELSE items[i]]
    ELSE Append(items, DepItem(name, deps.values))

\* lines 497-505: an export call found in a file of the resource `name`
RECURSIVE FoundExports(_, _, _)
FoundExports(items, name, found) ==
    IF found = <<>> THEN items
    ELSE LET with == IF name \in DepKeys(items) THEN items
                     ELSE Append(items, DepItem(name, <<>>))
             next == [i \in DOMAIN with |->
                        IF with[i].name = name /\ Head(found) \notin Range(with[i].deps)
                        THEN DepItem(name, Append(with[i].deps, Head(found)))
                        ELSE with[i]]
         IN  FoundExports(next, name, Tail(found))

\* The resources the export calls of a resource's files may name, in the
\* order the files are scanned.
ExportScans == { <<>>, <<"C">>, <<"A", "C">> }

\* The manifests the scanned tree may hold.
TreeManifests == {
    \* A/fxmanifest.lua:  dependency 'B'   client_script 'a.lua'
    Manifest(<<"A">>,
        << Decl("dependency", <<SQ, "B", SQ>>),
           Decl("client", <<SQ, "a.lua", SQ>>) >>),
    \* B/fxmanifest.lua:  client_script '@C/x.lua'   dependencies { 'C', 'A' }
    Manifest(<<"B">>,
        << Decl("client", <<SQ, "@C/x.lua", SQ>>),
           Decl("dependency", <<"{", " ", SQ, "C", SQ, ",", " ", SQ, "A", SQ, " ", "}">>) >>),
    \* C/fxmanifest.lua:  client_script 'a.lua'
    Manifest(<<"C">>, << Decl("client", <<SQ, "a.lua", SQ>>) >>),
    \* [cat]/A/fxmanifest.lua, a second resource named A:  dependency 'C'
    Manifest(<<"[cat]", "A">>, << Decl("dependency", <<SQ, "C", SQ>>) >>),
    \* bad/fxmanifest.lua:  dependency B
    Manifest(<<"bad">>, << Decl("dependency", <<"B">>) >>),
    \* x/A/fxmanifest.lua, a third resource named A:  client_script 'a.lua'
    Manifest(<<"x", "A">>, << Decl("client", <<SQ, "a.lua", SQ>>) >>),
    \* qux/fxmanifest.lua, an ignored resource
    Manifest(<<"qux">>, << Decl("dependency", <<SQ, "A", SQ>>) >>) }

\* The dependency names parse_manifest meets in the declarations `decls`, in
\* the order it meets them: every value of a dependency declaration (lines
\* 266-280), the resource of every '@res/file' value of a script declaration
\* (lines 282-300).
RECURSIVE SightedIn(_, _)
SightedIn(decls, i) ==
    IF i > Len(decls) THEN <<>>
    ELSE LET got == parse_values(decls[i].rest)
             ats == SelectSeq(got.values, StartsWithAt)
             names == IF decls[i].script_type = "dependency"
                      THEN [k \in DOMAIN got.values |->
                              StringOf(ValueChars(got.values[k]))]
                      ELSE [k \in DOMAIN ats |-> DependencyOf(ats[k])]
         IN  names \o SightedIn(decls, i + 1)

\* The two loops of parse_manifest: the dependency declarations first, the
\* script declarations after them.
Sighted(resource) ==
    SightedIn(SelectSeq(resource.decls, LAMBDA x : x.script_type = "dependency"), 1)
    \o SightedIn(SelectSeq(resource.decls, LAMBDA x : x.script_type # "dependency"), 1)

\* The sightings of `names` for the resource `name`.
SightingsOf(name, names) == [k \in DOMAIN names |-> [name |-> name, dep |-> names[k]]]

\* line 527: `temp` is not a name of results()
NameError == "NameError: name 'temp' is not defined"

\* lines 514-519: a block per resource, its dependencies under it
ForwardData(items) ==
    [i \in DOMAIN items |-> [title |-> items[i].name, lines |-> items[i].deps]]

\* lines 408-424 and 427-430: the tree is constructed without a config and
\* process() has listed the manifests.
StartTree ==
    /\ dependencies = <<>>
    /\ treeLeft \in 0..MaxTreeManifests
    /\ treeError = ""
    /\ tpc = "process"
    /\ treeScanned = <<>>
    /\ treeSeen = <<>>
    /\ treeData = <<>>

\* lines 432-462: one iteration of the loop over the manifests: the four
\* checks, parse_manifest, the unpacking of what it returned, update, and
\* process_file for every file.
TreeManifest ==
    /\ tpc = "process"
    /\ treeLeft > 0
    /\ treeLeft' = treeLeft - 1
    /\ \E resource \in TreeManifests, readable \in BOOLEAN, found \in ExportScans :
         IF SkipsManifest(resource)
         THEN UNCHANGED <<dependencies, treeError, tpc, treeScanned, treeSeen>>
         ELSE \* (bound by \E: TLC evaluates the value once)
              \E parsed \in {tree_parse_manifest(resource, readable)} :
                  IF parsed.error # ""
                  THEN /\ treeError' = parsed.error
                       /\ tpc' = "crashed"
                       /\ UNCHANGED <<dependencies, treeScanned, treeSeen>>
                  ELSE IF parsed.returned = "list"
                  THEN /\ treeError' = UnpackError
                       /\ tpc' = "crashed"
                       /\ UNCHANGED <<dependencies, treeScanned, treeSeen>>
                  ELSE LET name == NameOf(resource)
                           scans == IF parsed.files = <<>> THEN <<>> ELSE found
                           \* the list of the key is a new list when update()
                           \* sets the key
                           kept == IF parsed.deps.present
                                   THEN SelectSeq(treeSeen, LAMBDA x : x.name # name)
                                   ELSE treeSeen
                       IN  /\ dependencies' =
                                FoundExports(
                                    DictUpdate(dependencies, name, parsed.deps),
                                    name, scans)
                           /\ treeScanned' = Append(treeScanned,
                                    [resource |-> resource, found |-> scans])
                           /\ \E seen \in {Sighted(resource) \o scans} :
                                treeSeen' = kept \o SightingsOf(name, seen)
                           /\ UNCHANGED <<treeError, tpc>>
    /\ UNCHANGED treeData
    /\ UNCHANGED <<depVars, cfgVars, evVars, execVars, stripVars, declVars, togVars>>

\* lines 432 and 630: the loop is over, process() returns.
TreeReturn ==
    /\ tpc = "process"
    /\ treeLeft = 0
    /\ tpc' = "done"
    /\ UNCHANGED <<dependencies, treeLeft, treeError, treeScanned, treeSeen, treeData>>
    /\ UNCHANGED <<depVars, cfgVars, evVars, execVars, stripVars, declVars, togVars>>

\* lines 511-543 and 631: results(out, dependents). Without --reverse a
\* block per resource; with it the first dependency of the first list is not
\* yet a key of dependencies_reversed and line 527 is run.
TreeResults ==
    /\ tpc = "done"
    /\ \E dependents \in BOOLEAN :
         IF ~dependents
         THEN /\ treeData' = ForwardData(dependencies)
              /\ tpc' = "reported"
              /\ UNCHANGED treeError
         ELSE IF \E i \in DOMAIN dependencies : dependencies[i].deps # <<>>
         THEN /\ treeError' = NameError
              /\ tpc' = "crashed"
              /\ UNCHANGED treeData
         ELSE /\ treeData' = <<>>
              /\ tpc' = "reported"
              /\ UNCHANGED treeError
    /\ UNCHANGED <<dependencies, treeLeft, treeScanned, treeSeen>>
    /\ UNCHANGED <<depVars, cfgVars, evVars, execVars, stripVars, declVars, togVars>>

NextTree == TreeManifest \/ TreeReturn \/ TreeResults

InitTree == StartTree /\ IdleDeps /\ IdleConfig /\ IdleEvents /\ IdleExec /\ IdleStrip /\ IdleDecl /\ IdleToggle

SpecTree == InitTree /\ [][NextTree]_vars

\* ---- properties of the dependency tree's process ----

\* C16: a manifest that cannot be read contributes nothing and the scan goes
\* on with the next manifest: the dependency tree's process() is never ended
\* by the value parse_manifest returns for an unreadable manifest.
C16_UnreadableIsSkipped ==
    ~(tpc = "crashed" /\ treeError = UnpackError)

\* The list of the resource `name` in self.dependencies (<<>> without entry).
ListOf(name) ==
    IF name \in DepKeys(dependencies)
    THEN dependencies[CHOOSE i \in DOMAIN dependencies : dependencies[i].name = name].deps
    ELSE <<>>

\* The names sighted for the resource `name`, in the order of the sightings.
SeenFor(name) ==
    LET mine == SelectSeq(treeSeen, LAMBDA x : x.name = name)
    IN  [k \in DOMAIN mine |-> mine[k].dep]

\* C21: after any sequence of manifest parsing and script scanning, every
\* resource's dependency list is duplicate-free and holds the names sighted
\* for it (declared values, '@resource/...' references, export references),
\* each once, in the order of their first sighting.
C21_ListsAreFirstSeenOrder ==
    \A i \in DOMAIN dependencies :
        /\ \A j, k \in DOMAIN dependencies[i].deps :
              dependencies[i].deps[j] = dependencies[i].deps[k] => j = k
        /\ dependencies[i].deps = Dedupe(SeenFor(dependencies[i].name))

\* B's manifest after C's, whose files export from A and C: B's declared C
\* and A come first and its '@C' adds nothing.
C21_Witness ==
    /\ treeSeen = SightingsOf("C", <<"A", "C">>) \o SightingsOf("B", <<"C", "A", "C">>)
    /\ ListOf("B") = <<"C", "A">>
    /\ ListOf("C") = <<"A", "C">>

\* C22: in reverse mode results() completes: the run is never ended by an
\* exception of results().
C22_ReverseModeCompletes ==
    ~(tpc = "crashed" /\ treeError = NameError)

\* The scans of the manifests of the directory name `name`, in order.
ScansOf(name) == SelectSeq(treeScanned, LAMBDA x : NameOf(x.resource) = name)

\* C26: when two scanned manifests have the same directory name, the entry of
\* that name after the scan holds exactly the dependencies of the one
\* processed last: what its manifest declares and what its files export from
\* (no entry, or an empty one, when it has none).
C26_LastManifestWins ==
    tpc = "done" =>
        \A x \in Range(treeScanned) :
            LET name == NameOf(x.resource)
                last == Last(ScansOf(name))
            IN  Len(ScansOf(name)) >= 2 =>
                    ListOf(name) = Dedupe(Sighted(last.resource) \o last.found)

\* ===========================================================================
\* prototype-deptree.py: CfxDependencyTree.results_advanced.resolve_dependencies
\* ===========================================================================

\* The resource names the resolver's inputs are drawn from.
ResourceNames == {"A", "B", "C"}

\* Every dictionary with keys among ResourceNames and values among their subsets.
DependencyMaps ==
    UNION {[keys -> SUBSET ResourceNames] : keys \in SUBSET ResourceNames}

\* line 558: t = set(i for v in d.values() for i in v)    # - set(d.keys())
\* line 560: t.update(k for k, v in d.items() if not v)
Layer(dd) ==
    (UNION {dd[k] : k \in DOMAIN dd}) \cup {k \in DOMAIN dd : dd[k] = {}}

\* line 564: d = {k: (v - t) for k, v in d.items() if v}
CleanUp(dd, t) ==
    [k \in {x \in DOMAIN dd : dd[x] # {}} |-> dd[k] \ t]

\* line 554-555: d = {k: set(v) ...}; r = []
StartDeps ==
    /\ arg \in DependencyMaps
    /\ d = arg
    /\ r = <<>>
    /\ dpc = "loop"

\* One iteration of `while d:` (lines 556-564).
ResolveStep ==
    /\ dpc = "loop"
    /\ DOMAIN d # {}
    /\ r' = Append(r, Layer(d))
    /\ d' = CleanUp(d, Layer(d))
    /\ UNCHANGED <<arg, dpc>>
    /\ UNCHANGED <<cfgVars, evVars, execVars, stripVars, treeVars, declVars, togVars>>

\* `while d` finds d empty: return r (line 565).
ResolveReturn ==
    /\ dpc = "loop"
    /\ DOMAIN d = {}
    /\ dpc' = "done"
    /\ UNCHANGED <<arg, d, r>>
    /\ UNCHANGED <<cfgVars, evVars, execVars, stripVars, treeVars, declVars, togVars>>

NextDeps == ResolveStep \/ ResolveReturn

InitDeps == StartDeps /\ IdleConfig /\ IdleEvents /\ IdleExec /\ IdleStrip /\ IdleTree /\ IdleDecl /\ IdleToggle

SpecDeps == InitDeps /\ [][NextDeps]_vars

\* ---- properties of the resolver ----

\* The names reachable from the names of `from` by following 1..n dependency edges.
RECURSIVE ReachIn(_, _, _)
ReachIn(m, from, n) ==
    IF n = 0 THEN {}
    ELSE LET step == UNION {m[k] : k \in from \cap DOMAIN m}
         IN  step \cup ReachIn(m, step, n - 1)

\* A cycle: some resource depends, directly or not, on itself.
HasCycle(m) ==
    \E k \in DOMAIN m : k \in ReachIn(m, {k}, Cardinality(ResourceNames))

\* A mutual dependency: two different resources that each depend, directly or
\* not, on the other (A depends on B and B depends on A).
HasMutualCycle(m) ==
    \E k, x \in DOMAIN m :
        /\ k # x
        /\ x \in ReachIn(m, {k}, Cardinality(ResourceNames))
        /\ k \in ReachIn(m, {x}, Cardinality(ResourceNames))

\* Every name of the mapping: its keys and the names they depend on.
AllNames(m) == DOMAIN m \cup UNION {m[k] : k \in DOMAIN m}

\* The scenario of the specification: {A: [B], B: [], C: [A]}.
ScenarioABC == [k \in {"A", "B", "C"} |->
                  IF k = "A" THEN {"B"} ELSE IF k = "C" THEN {"A"} ELSE {}]

\* C5: on an acyclic mapping the returned layers put every resource in a layer
\* strictly later than the layers of all of its dependencies, and
\* {A: [B], B: [], C: [A]} yields exactly [{B}, {A}, {C}].
C5_LayersFollowDependencies ==
    (dpc = "done" /\ ~HasCycle(arg)) =>
        /\ \A k \in AllNames(arg) : \E i \in DOMAIN r : k \in r[i]
        /\ \A k \in DOMAIN arg : \A x \in arg[k] :
               \A i, j \in DOMAIN r : (k \in r[i] /\ x \in r[j]) => j < i
        /\ (arg = ScenarioABC => r = <<{"B"}, {"A"}, {"C"}>>)

\* C6: the returned layers are pairwise disjoint and together hold every name
\* of the input mapping (keys and dependency names), each exactly once. Stated
\* for the acyclic mappings, on which a layered topological sort returns.
C6_LayersPartitionNames ==
    (dpc = "done" /\ ~HasCycle(arg)) =>
        /\ UNION Range(r) = AllNames(arg)
        /\ \A i, j \in DOMAIN r : i # j => r[i] \cap r[j] = {}

\* C7: when the mapping holds a true cycle (a mutual dependency) the loop
\* `while d` never ends: `return r` is never reached.
C7_CycleNeverReturns ==
    HasMutualCycle(arg) => dpc # "done"

\* ===========================================================================
\* prototype_custom_fivem.py: main, main_server, main_client, remove_component
\* ===========================================================================

\* The most runs of main on the folder, and the most entries of a component
\* list.
MaxRuns == 2
MaxComponents == 2

\* lines 16-19 and 44-49, 84 and 87: the file names
CLIENT_MARK == "CitizenFX.ini"
SERVER_MARK == "FXServer.exe"
ADHESIVE == "adhesive.dll"
ADHESIVE_BAK == "xadhesive.dll"
FORMALDEV == "FiveM.exe.formaldev"
NOBOOTSTRAP == "nobootstrap.txt"
SVADHESIVE == "svadhesive.dll"
SVADHESIVE_BAK == "xsvadhesive.dll"
COMPONENTS == "components.json"
COMPONENTS_BAK == "components.json.bak"

JsonFiles == {COMPONENTS, COMPONENTS_BAK}

\* What a JSON file holds: a list of component names, or text json.load
\* cannot read (an empty file). NoJson is the entry of a file that is absent.
JsonList(list) == [valid |-> TRUE, list |-> list]
Truncated == [valid |-> FALSE, list |-> <<>>]
NoJson == Truncated

\* The component lists of a folder of the kind.
ComponentLists(component) ==
    UNION {[1..n -> {component, "citizen-core"}] : n \in 0..MaxComponents}

\* The folder: the set of its files and the entries of its JSON files.
Folder(names, entries) == [present |-> names, json |-> entries]

\* The folders main may be given: a FiveM application-data folder (with
\* CitizenFX.ini), an FXServer folder (with FXServer.exe), or neither; any of
\* the files the script works on may be there or not.
Folders(mark, others, component) ==
    {Folder({mark} \cup names,
            [f \in JsonFiles |-> IF f \in names THEN JsonList(lists[f]) ELSE NoJson]) :
        names \in SUBSET (others \cup JsonFiles),
        lists \in [JsonFiles -> ComponentLists(component)]}

ClientFolders == Folders(CLIENT_MARK, {ADHESIVE, ADHESIVE_BAK, FORMALDEV, NOBOOTSTRAP}, "adhesive")
ServerFolders == Folders(SERVER_MARK, {SVADHESIVE, SVADHESIVE_BAK}, "svadhesive")
OtherFolders == {Folder({}, [f \in JsonFiles |-> NoJson])}

\* The result of a statement: the folder behind it and the exception it
\* raised ("" when none).
Done(fs) == [fs |-> fs, err |-> ""]
Raised(fs, err) == [fs |-> fs, err |-> err]

\* The next statement runs when no exception was raised before it.
Then(res, Op(_)) == IF res.err # "" THEN res ELSE Op(res.fs)

\* Path.rename: the source must exist; on Windows the target must not.
rename(fs, a, b, win) ==
    IF a \notin fs.present THEN Raised(fs, "FileNotFoundError")
    ELSE IF b \in fs.present /\ win THEN Raised(fs, "FileExistsError")
    ELSE Done([fs EXCEPT !.present = (@ \ {a}) \cup {b}])

\* Path.unlink
unlink(fs, a) ==
    IF a \notin fs.present THEN Raised(fs, "FileNotFoundError")
    ELSE Done([fs EXCEPT !.present = @ \ {a}])

\* Path.touch
touch(fs, a) == Done([fs EXCEPT !.present = @ \cup {a}])

\* Path.replace of one JSON file by another: the target is overwritten.
replace(fs, a, b) ==
    IF a \notin fs.present THEN Raised(fs, "FileNotFoundError")
    ELSE Done([present |-> (fs.present \ {a}) \cup {b},
               json |-> [fs.json EXCEPT ![b] = fs.json[a], ![a] = NoJson]])

\* list.remove: the first occurrence
RemoveFirst(list, x) ==
    LET i == CHOOSE k \in DOMAIN list : list[k] = x /\ \A j \in 1..(k - 1) : list[j] # x
    IN  SubSeq(list, 1, i - 1) \o SubSeq(list, i + 1, Len(list))

\* lines 6-11: remove_component. Opening json_path for writing creates or
\* empties it before the backup is parsed.
remove_component(fs, json_bak_path, json_path, component) ==
    IF json_bak_path \notin fs.present THEN Raised(fs, "FileNotFoundError")
    ELSE LET opened == [present |-> fs.present \cup {json_path},
                        json |-> [fs.json EXCEPT ![json_path] = Truncated]]
             data == fs.json[json_bak_path]
         IN  IF ~data.valid THEN Raised(opened, "JSONDecodeError")
             ELSE IF \A k \in DOMAIN data.list : data.list[k] # component
             THEN Raised(opened, "ValueError")
             ELSE Done([opened EXCEPT
                          !.json[json_path] = JsonList(RemoveFirst(data.list, component))])

\* lines 13-35: main_server
main_server(fs, win) ==
    IF SVADHESIVE_BAK \in fs.present
    THEN Then(rename(fs, SVADHESIVE_BAK, SVADHESIVE, win),
              LAMBDA f : replace(f, COMPONENTS_BAK, COMPONENTS))
    ELSE Then(Then(rename(fs, SVADHESIVE, SVADHESIVE_BAK, win),
                   LAMBDA f : replace(f, COMPONENTS, COMPONENTS_BAK)),
              LAMBDA f : remove_component(f, COMPONENTS_BAK, COMPONENTS, "svadhesive"))

\* line 51: active
ClientActive(names) == {ADHESIVE_BAK, FORMALDEV, NOBOOTSTRAP} \cap names # {}

\* lines 38-73: main_client
main_client(fs, win) ==
    IF ClientActive(fs.present)
    THEN Then(Then(Then(rename(fs, ADHESIVE_BAK, ADHESIVE, win),
                        LAMBDA f : unlink(f, FORMALDEV)),
                   LAMBDA f : unlink(f, NOBOOTSTRAP)),
              LAMBDA f : replace(f, COMPONENTS_BAK, COMPONENTS))
    ELSE Then(Then(Then(Then(rename(fs, ADHESIVE, ADHESIVE_BAK, win),
                             LAMBDA f : touch(f, FORMALDEV)),
                        LAMBDA f : touch(f, NOBOOTSTRAP)),
                   LAMBDA f : replace(f, COMPONENTS, COMPONENTS_BAK)),
              LAMBDA f : remove_component(f, COMPONENTS_BAK, COMPONENTS, "adhesive"))

\* lines 75-90: main, for an argument that is a folder
main(fs, win) ==
    IF CLIENT_MARK \in fs.present THEN main_client(fs, win)
    ELSE IF SERVER_MARK \in fs.present THEN main_server(fs, win)
    ELSE Done(fs)

\* The folder before the first run of the script.
StartToggle ==
    /\ before \in ClientFolders \cup ServerFolders \cup OtherFolders
    /\ present = before.present
    /\ json = before.json
    /\ windows \in BOOLEAN
    /\ outcomes = <<>>
    /\ gpc = "ready"

\* lines 92-96: one run of the script on the folder
Main ==
    /\ gpc = "ready"
    /\ Len(outcomes) < MaxRuns
    /\ LET res == main(Folder(present, json), windows)
       IN  /\ present' = res.fs.present
           /\ json' = res.fs.json
           /\ outcomes' = Append(outcomes, res.err)
    /\ UNCHANGED <<windows, before, gpc>>
    /\ UNCHANGED <<depVars, cfgVars, evVars, execVars, stripVars, treeVars, declVars>>

NextToggle == Main

InitToggle == StartToggle /\ IdleDeps /\ IdleConfig /\ IdleEvents /\ IdleExec /\ IdleStrip /\ IdleTree /\ IdleDecl

SpecToggle == InitToggle /\ [][NextToggle]_vars

\* ---- properties of the toggle ----

\* The normal state of a folder: the adhesive DLL present, no x-prefixed
\* backup of it, no marker file, components.json listing the component.
NormalClient(fs) ==
    /\ CLIENT_MARK \in fs.present
    /\ ADHESIVE \in fs.present
    /\ {ADHESIVE_BAK, FORMALDEV, NOBOOTSTRAP} \cap fs.present = {}
    /\ COMPONENTS \in fs.present
    /\ \E k \in DOMAIN fs.json[COMPONENTS].list : fs.json[COMPONENTS].list[k] = "adhesive"

NormalServer(fs) ==
    /\ SERVER_MARK \in fs.present
    /\ CLIENT_MARK \notin fs.present
    /\ SVADHESIVE \in fs.present
    /\ SVADHESIVE_BAK \notin fs.present
    /\ COMPONENTS \in fs.present
    /\ \E k \in DOMAIN fs.json[COMPONENTS].list : fs.json[COMPONENTS].list[k] = "svadhesive"

\* C29: toggling is a round trip: from the normal state, two runs of
\* main_client, or of main_server, end without error in a folder with the
\* same set of files and the same component list in components.json.
C29_ToggleTwiceRestores ==
    (Len(outcomes) = 2 /\ (NormalClient(before) \/ NormalServer(before))) =>
        /\ outcomes = <<"", "">>
        /\ present = before.present
        /\ json[COMPONENTS] = before.json[COMPONENTS]

\* C30: whenever main_client detects the active state it completes the
\* deactivation without error and leaves the normal state: adhesive.dll
\* there, none of the three marker files, components.json the backup.
C30_DeactivationCompletes ==
    [][ (CLIENT_MARK \in present /\ ClientActive(present)) =>
          ( /\ Last(outcomes') = ""
            /\ ADHESIVE \in present'
            /\ {ADHESIVE_BAK, FORMALDEV, NOBOOTSTRAP} \cap present' = {}
            /\ COMPONENTS \in present'
            /\ COMPONENTS_BAK \notin present'
            /\ json'[COMPONENTS] = json[COMPONENTS_BAK] ) ]_vars

====
